---- MODULE Spec2Model ----
(***************************************************************************)
(* MeshCore to Discord bridge: the frame transport (meshcore_connection),  *)
(* the protocol decoder with its bootstrap/live contact directory          *)
(* (meshcore_decoder) and the event sink (discord_bridge.handle_event).    *)
(*                                                                         *)
(* Bytes are integers 0..255, byte strings are sequences of bytes, and a   *)
(* hex string is the sequence of its hex digits (0..15).                   *)
(***************************************************************************)
EXTENDS Integers, Sequences, FiniteSets, TLC

VARIABLES
    \* MeshCoreConnection
    buffer,      \* self.buffer
    connected,   \* self.connected
    running,     \* self.running
    writer,      \* self.writer is not None
    pc,          \* where the read loop (or the connect that precedes it) stands
    cur,         \* <<frame>> sliced out of the buffer and not yet passed to the callback
    tasks,       \* send_frame(10) tasks created by process_buffer and not yet run
    \* the socket, as the environment sees it
    link,        \* the socket behind self.reader/self.writer: "down" (none yet),
                 \* "up", "eof" (the node closed), "reset" (broken), "closed" (by us)
    wire,        \* segments in flight towards the reader
    out,         \* bytes written to the current connection
    hs,          \* handshake requests initialize has gone through on this connect
    conns,       \* connections opened so far
    syncs,       \* requests periodic_sync has issued so far
    sent,        \* segments the node has sent so far
    stopped,     \* disconnect() has run
    auto_reconnect,  \* self.auto_reconnect
    \* MeshCoreDecoder
    contacts,                 \* self.contacts
    initial_contact_loading,  \* self.initial_contact_loading
    initial_contacts,         \* self.initial_contacts
    stats,                    \* self.stats
    \* the event sink
    events,      \* the events handed to the event callback, in call order, each
                 \* with the index of its frame and whether the callback raised
    \* history
    rx,          \* every byte appended to the buffer so far
    delivered,   \* every frame body passed to the frame callback so far
    dropped,     \* every byte discarded by resynchronisation so far
    input        \* the input of the run: what a pure-function specification drew
                 \* in Init, or the segments sent over a connection that stays up

vars == <<buffer, connected, running, writer, pc, cur, tasks, link, wire, out,
          hs, conns, syncs, sent, stopped, auto_reconnect,
          contacts, initial_contact_loading, initial_contacts, stats,
          events, rx, delivered, dropped, input>>

connVars == <<connected, running, writer, link, out, hs, conns, syncs, sent,
              stopped, auto_reconnect>>
decoderVars == <<contacts, initial_contact_loading, initial_contacts, stats>>

(***************************************************************************)
(* Python byte-string primitives                                           *)
(***************************************************************************)
Min(a, b) == IF a <= b THEN a ELSE b

\* s[a:b], 0-based and half-open, clamped to the string as Python clamps it
Slice(s, a, b) ==
    LET lo == Min(a, Len(s))
        hi == Min(b, Len(s))
    IN  IF lo >= hi THEN <<>> ELSE SubSeq(s, lo + 1, hi)

\* s[a:]
SliceFrom(s, a) == Slice(s, a, Len(s))

\* struct.pack('<H', n)
PackU16(n) == <<n % 256, (n \div 256) % 256>>

\* struct.unpack('<H', b)[0]
UnpackU16(b) == b[1] + 256 * b[2]

\* bytes.hex(): two hex digits per byte, high digit first
Hex(s) ==
    [i \in 1..(2 * Len(s)) |->
        IF i % 2 = 1 THEN s[(i + 1) \div 2] \div 16 ELSE s[i \div 2] % 16]

\* bytes.decode('utf-8', errors='ignore') on strings whose bytes >= 0x80 never
\* form a valid multi-byte sequence: ASCII bytes are kept, the others dropped
Utf8Ignore(s) == SelectSeq(s, LAMBDA b : b < 128)

\* str.rstrip('\x00'): the string up to its last character other than NUL
RStripNul(s) ==
    LET keep == {i \in DOMAIN s : s[i] # 0}
    IN  IF keep = {} THEN <<>>
        ELSE SubSeq(s, 1, CHOOSE i \in keep : \A j \in keep : j <= i)

(***************************************************************************)
(* Wire format                                                             *)
(***************************************************************************)
MARKER_IN == 62
MARKER_OUT == 60
MSG_WAITING == 131
CMD_SYNC_NEXT_MESSAGE == 10

\* the frame the node puts on the wire for a frame body
InFrame(body) == <<MARKER_IN>> \o PackU16(Len(body)) \o body

OutFrameLenOfData(cmd_code, data) ==
    <<MARKER_OUT>> \o PackU16(Len(data)) \o <<cmd_code>> \o data

\* send_frame's serialisation of (cmd_code, data)
OutFrame(cmd_code, data) ==
    LET frame_data == <<cmd_code>> \o data
    IN  <<MARKER_OUT>> \o PackU16(Len(frame_data)) \o frame_data

(***************************************************************************)
(* process_buffer, one loop iteration at a time                            *)
(***************************************************************************)
\* the while condition
HeaderReady(buf) == Len(buf) >= 3

\* frame_len
FrameLen(buf) == UnpackU16(Slice(buf, 1, 3))

FrameCompletePartial(buf) == Len(buf) >= FrameLen(buf)
\* len(self.buffer) >= 3 + frame_len
FrameComplete(buf) == Len(buf) >= 3 + FrameLen(buf)

\* frame = bytes(self.buffer[3:3 + frame_len])
SliceFrame(buf) == Slice(buf, 3, 3 + FrameLen(buf))

AfterSliceKeepHeader(buf) == SliceFrom(buf, FrameLen(buf))
\* self.buffer = self.buffer[3 + frame_len:]
AfterSlice(buf) == SliceFrom(buf, 3 + FrameLen(buf))

DiscardTwo(buf) == SliceFrom(buf, 2)
\* self.buffer.pop(0)
DiscardOne(buf) == SliceFrom(buf, 1)

ExtendReplace(buf, data) == data
\* self.buffer.extend(data)
Extend(buf, data) == buf \o data

\* the whole of process_buffer on one buffer: the frames it passes to the
\* callback, in order, and the buffer it leaves
RECURSIVE process_buffer(_)
process_buffer(buf) ==
    IF ~HeaderReady(buf) THEN [frames |-> <<>>, buffer |-> buf]
    ELSE IF buf[1] = MARKER_IN
         THEN IF FrameComplete(buf)
              THEN LET r == process_buffer(AfterSlice(buf))
                   IN  [frames |-> <<SliceFrame(buf)>> \o r.frames,
                        buffer |-> r.buffer]
              ELSE [frames |-> <<>>, buffer |-> buf]
         ELSE process_buffer(DiscardOne(buf))

(***************************************************************************)
(* MeshCoreDecoder.  A decoder state d is the record of the object's       *)
(* fields; a decode step yields the new state and the events it hands to   *)
(* the event callback (at most one).                                       *)
(***************************************************************************)
Decoder == [contacts |-> contacts,
            initial_contact_loading |-> initial_contact_loading,
            initial_contacts |-> initial_contacts,
            stats |-> stats]

\* __init__
NewDecoder == [contacts |-> <<>>,
               initial_contact_loading |-> TRUE,
               initial_contacts |-> <<>>,
               stats |-> [frames |-> 0, messages |-> 0,
                          mesh_packets |-> 0, adverts |-> 0]]

\* struct.unpack('<I', b)[0]: the value hi * 65536 + lo, from 0 to 2^32 - 1,
\* kept as its two 16-bit halves
UnpackU32(b) == [hi |-> b[3] + 256 * b[4], lo |-> b[1] + 256 * b[2]]

TypeStrShifted(node_type) ==
    CASE node_type = 1 -> <<"CHAT">>
      [] node_type = 2 -> <<"ROOM">>
      [] node_type = 3 -> <<"REPEATER">>
      [] OTHER -> <<"TYPE_", node_type>>

\* types.get(node_type, f'TYPE_{node_type}')
TypeStr(node_type) ==
    CASE node_type = 1 -> <<"CHAT">>
      [] node_type = 2 -> <<"REPEATER">>
      [] node_type = 3 -> <<"ROOM">>
      [] OTHER -> <<"TYPE_", node_type>>

\* pubkey[:12], the directory key of a hex public key
KeyPrefix(pubkey) == Slice(pubkey, 0, 12)

DirPutOnly(dir, key, name) == [k \in {key} |-> name]
\* self.contacts[key] = name
DirPut(dir, key, name) ==
    [k \in (DOMAIN dir) \cup {key} |-> IF k = key THEN name ELSE dir[k]]

ContactName(frame) ==
    LET name_data == IF Len(frame) >= 132 THEN Slice(frame, 100, 132) ELSE <<>>
    IN  RStripNul(Utf8Ignore(name_data))

ContactType(frame) == TypeStr(IF Len(frame) > 33 THEN frame[34] ELSE 0)

ContactLongEnough(frame) == Len(frame) >= 100

_decode_contact_always_event(d, frame) ==
    IF ~ContactLongEnough(frame) THEN [d |-> d, event |-> <<>>]
    ELSE
    LET pubkey == Hex(Slice(frame, 1, 33))
        d1 == [d EXCEPT !.contacts = DirPut(@, KeyPrefix(pubkey), ContactName(frame))]
    IN  [d |-> d1,
         event |-> <<[type |-> "contact",
                      data |-> [pubkey |-> pubkey,
                                name |-> ContactName(frame),
                                node_type |-> ContactType(frame)],
                      raw_frame |-> frame]>>]

\* _decode_contact
_decode_contact(d, frame) ==
    IF ~ContactLongEnough(frame) THEN [d |-> d, event |-> <<>>]
    ELSE
    LET pubkey == Hex(Slice(frame, 1, 33))
        name == ContactName(frame)
        type_str == ContactType(frame)
        d1 == [d EXCEPT !.contacts = DirPut(@, KeyPrefix(pubkey), name)]
    IN  IF d.initial_contact_loading
        THEN [d |-> [d1 EXCEPT !.initial_contacts =
                        Append(@, [name |-> name, type |-> type_str,
                                   pubkey |-> pubkey])],
              event |-> <<>>]
        ELSE [d |-> d1,
              event |-> <<[type |-> "contact",
                           data |-> [pubkey |-> pubkey, name |-> name,
                                     node_type |-> type_str],
                           raw_frame |-> frame]>>]

\* _decode_ack
_decode_ack(d, frame) ==
    IF Len(frame) < 9 THEN [d |-> d, event |-> <<>>]
    ELSE [d |-> d,
          event |-> <<[type |-> "ack",
                       data |-> [ack_code |-> Hex(Slice(frame, 1, 5)),
                                 rtt_ms |-> UnpackU32(Slice(frame, 5, 9))],
                       raw_frame |-> frame]>>]

\* type_counts of finalize_initial_contacts
TypeCounts(list) ==
    [t \in {list[i].type : i \in DOMAIN list} |->
        Cardinality({i \in DOMAIN list : list[i].type = t})]

\* the CONTACT_SUMMARY event of finalize_initial_contacts
SummaryEvent(list) ==
    [type |-> "contact_summary",
     data |-> [total |-> Len(list),
               by_type |-> TypeCounts(list),
               contacts |-> list],
     raw_frame |-> <<>>]

AfterSummaryTail(list) == IF list = <<>> THEN <<>> ELSE Tail(list)

AfterSummaryKeep(list) == list
\* self.initial_contacts = []
AfterSummary(list) == <<>>

finalize_initial_contacts_again(d) ==
    [d |-> [d EXCEPT !.initial_contact_loading = FALSE,
                     !.initial_contacts = AfterSummary(@)],
     event |-> <<SummaryEvent(d.initial_contacts)>>]

finalize_initial_contacts_unguarded(d) ==
    [d |-> [d EXCEPT !.initial_contact_loading = FALSE,
                     !.initial_contacts = AfterSummary(@)],
     event |-> <<SummaryEvent(d.initial_contacts)>>]

finalize_initial_contacts_toggle(d) ==
    [d |-> [d EXCEPT !.initial_contact_loading = ~@,
                     !.initial_contacts = AfterSummary(@)],
     event |-> <<SummaryEvent(d.initial_contacts)>>]

\* finalize_initial_contacts
finalize_initial_contacts(d) ==
    IF ~d.initial_contact_loading THEN [d |-> d, event |-> <<>>]
    ELSE [d |-> [d EXCEPT !.initial_contact_loading = FALSE,
                          !.initial_contacts = AfterSummary(@)],
          event |-> <<SummaryEvent(d.initial_contacts)>>]

(***************************************************************************)
(* Text: a str is the sequence of its character codes.                     *)
(***************************************************************************)
\* str(n) of a byte
Digits(n) ==
    IF n < 10 THEN <<48 + n>>
    ELSE IF n < 100 THEN <<48 + (n \div 10), 48 + (n % 10)>>
    ELSE <<48 + (n \div 100), 48 + ((n \div 10) % 10), 48 + (n % 10)>>

\* a hex string as text: the digits 0-9 and a-f
HexChars(h) == [i \in DOMAIN h |-> IF h[i] < 10 THEN 48 + h[i] ELSE 87 + h[i]]

\* ': '
SEP == <<58, 32>>
\* 'Unknown'
UNKNOWN == <<85, 110, 107, 110, 111, 119, 110>>
\* 'Channel #'
CHANNEL_NO == <<67, 104, 97, 110, 110, 101, 108, 32, 35>>
\* '...'
DOTS == <<46, 46, 46>>

\* the positions at which ': ' occurs in text
SepAt(text) ==
    {i \in 1..(Len(text) - 1) : text[i] = SEP[1] /\ text[i + 1] = SEP[2]}

SplitLast(text, default) ==
    IF SepAt(text) = {} THEN [sender |-> default, message |-> text]
    ELSE LET i == CHOOSE k \in SepAt(text) : \A j \in SepAt(text) : j <= k
         IN  [sender |-> SubSeq(text, 1, i - 1),
              message |-> SubSeq(text, i + 2, Len(text))]

\* sender, message = default, text; if ': ' in text: text.split(': ', 1)
Split(text, default) ==
    IF SepAt(text) = {} THEN [sender |-> default, message |-> text]
    ELSE LET i == CHOOSE k \in SepAt(text) : \A j \in SepAt(text) : k <= j
         IN  [sender |-> SubSeq(text, 1, i - 1),
              message |-> SubSeq(text, i + 2, Len(text))]

HopsRaw(b) == b

\* frame[i] if frame[i] != 0xFF else 0
Hops(b) == IF b # 255 THEN b ELSE 0

\* frame[a:].decode('utf-8', errors='ignore') if len(frame) > a else ""
TextFrom(frame, a) == IF Len(frame) > a THEN Utf8Ignore(SliceFrom(frame, a)) ELSE <<>>

LookupNoPrefix(dir, key, default) ==
    IF key \in DOMAIN dir THEN dir[key] ELSE default

\* self.contacts.get(key[:12], default)
Lookup(dir, key, default) ==
    IF KeyPrefix(key) \in DOMAIN dir THEN dir[KeyPrefix(key)] ELSE default

\* sender_key[:8] + '...'
KeyFallback(sender_key) == HexChars(Slice(sender_key, 0, 8)) \o DOTS

SignedByteRaw(b) == b

\* struct.unpack('b', bytes([b]))[0]
SignedByte(b) == IF b < 128 THEN b ELSE b - 256

\* struct.unpack('<i', b)[0]
UnpackI32(b) ==
    IF b[4] < 128
    THEN b[1] + 256 * b[2] + 65536 * b[3] + 16777216 * b[4]
    ELSE b[1] + 256 * b[2] + 65536 * b[3] + 16777216 * (b[4] - 128)
            - 2147483647 - 1

\* x / 4.0, kept as the fraction x/4
Quarter(x) == [num |-> x, den |-> 4]

CountAdvertToo(d, counter) ==
    [d EXCEPT !.stats[counter] = @ + 1, !.stats.adverts = @ + 1]

CountTwice(d, counter) == [d EXCEPT !.stats[counter] = @ + 2]
\* self.stats[counter] += 1
Count(d, counter) == [d EXCEPT !.stats[counter] = @ + 1]

NoEventCounted(d) == [d |-> Count(d, "messages"), event |-> <<>>]
\* if len(frame) < minimum: return None, before anything is counted
NoEvent(d) == [d |-> d, event |-> <<>>]

\* _decode_0x11_message
_decode_0x11_message(d, frame) ==
    IF Len(frame) < 11 THEN NoEvent(d)
    ELSE
    LET channel == frame[5]
        parts == Split(TextFrom(frame, 11), CHANNEL_NO \o Digits(channel))
    IN  [d |-> Count(d, "messages"),
         event |-> <<[type |-> "channel_message",
                      data |-> [sender |-> parts.sender,
                                message |-> parts.message,
                                channel |-> channel,
                                hops |-> Hops(frame[6]),
                                timestamp |-> UnpackU32(Slice(frame, 6, 10))],
                      raw_frame |-> frame]>>]

\* _decode_0x10_message
_decode_0x10_message(d, frame) ==
    IF Len(frame) < 16 THEN NoEvent(d)
    ELSE
    LET sender_key == Hex(Slice(frame, 4, 10))
    IN  [d |-> Count(d, "messages"),
         event |-> <<[type |-> "direct_message",
                      data |-> [sender |-> Lookup(d.contacts, sender_key,
                                                  KeyFallback(sender_key)),
                                message |-> TextFrom(frame, 16),
                                channel |-> 0,
                                hops |-> Hops(frame[11]),
                                timestamp |-> UnpackU32(Slice(frame, 12, 16))],
                      raw_frame |-> frame]>>]

\* _decode_channel_message
_decode_channel_message(d, frame) ==
    IF Len(frame) < 8 THEN NoEvent(d)
    ELSE
    LET parts == Split(TextFrom(frame, 8), UNKNOWN)
    IN  [d |-> Count(d, "messages"),
         event |-> <<[type |-> "channel_message",
                      data |-> [sender |-> parts.sender,
                                message |-> parts.message,
                                channel |-> frame[2],
                                hops |-> Hops(frame[3]),
                                timestamp |-> UnpackU32(Slice(frame, 4, 8))],
                      raw_frame |-> frame]>>]

\* _decode_direct_message
_decode_direct_message(d, frame) ==
    IF Len(frame) < 13 THEN NoEvent(d)
    ELSE
    LET sender_key == Hex(Slice(frame, 1, 7))
    IN  [d |-> Count(d, "messages"),
         event |-> <<[type |-> "direct_message",
                      data |-> [sender |-> Lookup(d.contacts, sender_key,
                                                  KeyFallback(sender_key)),
                                sender_key |-> sender_key,
                                message |-> TextFrom(frame, 13),
                                hops |-> Hops(frame[8])],
                      raw_frame |-> frame]>>]

\* self.contacts.get(pubkey[:12], 'Unknown')
AdvertName(dir, pubkey) == Lookup(dir, pubkey, UNKNOWN)

\* _decode_advertisement
_decode_advertisement(d, frame) ==
    IF Len(frame) < 33 THEN NoEvent(d)
    ELSE
    LET pubkey == Hex(Slice(frame, 1, 33))
    IN  [d |-> Count(d, "adverts"),
         event |-> <<[type |-> "advertisement",
                      data |-> [pubkey |-> pubkey,
                                name |-> AdvertName(d.contacts, pubkey)],
                      raw_frame |-> frame]>>]

\* _decode_raw_data
_decode_raw_data(d, frame) ==
    IF Len(frame) < 4 THEN NoEvent(d)
    ELSE [d |-> d,
          event |-> <<[type |-> "raw_data",
                       data |-> [snr_db |-> Quarter(SignedByte(frame[2])),
                                 rssi_dbm |-> SignedByte(frame[3]),
                                 payload |-> Hex(SliceFrom(frame, 4))],
                       raw_frame |-> frame]>>]

\* c.isprintable() or c in '-_', for a character below 128
Printable(c) == c >= 32 /\ c <= 126

\* the parts of tail.split(b'\x00') that are not empty, as <<first, last>>
Parts(tail) ==
    {r \in (1..Len(tail)) \X (1..Len(tail)) :
        /\ r[1] <= r[2]
        /\ \A i \in r[1]..r[2] : tail[i] # 0
        /\ (r[1] = 1 \/ tail[r[1] - 1] = 0)
        /\ (r[2] = Len(tail) \/ tail[r[2] + 1] = 0)}

\* the node name read from the end of a mesh packet: the last part of more
\* than 3 bytes whose text is printable; <<>> when there is none
MeshNodeName(data) ==
    LET tail == SliceFrom(data, IF Len(data) > 50 THEN Len(data) - 50 ELSE 0)
        good == {r \in Parts(tail) :
                    /\ r[2] - r[1] + 1 > 3
                    /\ \A c \in {Utf8Ignore(SubSeq(tail, r[1], r[2]))[i] :
                                   i \in DOMAIN Utf8Ignore(SubSeq(tail, r[1], r[2]))} :
                          Printable(c)}
    IN  IF (\A i \in DOMAIN tail : tail[i] # 0) \/ good = {} THEN <<>>
        ELSE LET r == CHOOSE q \in good : \A o \in good : o[1] <= q[1]
             IN  <<Utf8Ignore(SubSeq(tail, r[1], r[2]))>>

\* the public key found in a mesh packet: the first of data[o:o+32], o in
\* 4, 6, 8, that has a byte other than 0 and 0xFF; <<>> when there is none
MeshPubkey(data) ==
    LET has(o) == /\ Len(data) >= o + 32
                  /\ \E i \in (o + 1)..(o + 32) : data[i] # 0 /\ data[i] # 255
    IN  IF has(4) THEN <<Hex(Slice(data, 4, 36))>>
        ELSE IF has(6) THEN <<Hex(Slice(data, 6, 38))>>
        ELSE IF has(8) THEN <<Hex(Slice(data, 8, 40))>>
        ELSE <<>>

MeshSubtypeFrom100(n) ==
    IF n >= 100 THEN "ADVERTISEMENT" ELSE IF n < 20 THEN "BEACON" ELSE "DATA"
\* the subtype of a packet of n bytes: if len(data) > 100 / elif < 20 / else
MeshSubtype(n) ==
    IF n > 100 THEN "ADVERTISEMENT" ELSE IF n < 20 THEN "BEACON" ELSE "DATA"

\* _decode_mesh_packet; pubkey and node_name hold <<value>> when the key is
\* set in packet_data and <<>> when it is not
_decode_mesh_packet(d, frame) ==
    LET data == SliceFrom(frame, 1)
        base == [length |-> Len(data), hex |-> Hex(data)]
        packet_data ==
            IF Len(data) < 2 THEN base
            ELSE IF Len(data) > 100
            THEN [length |-> Len(data), hex |-> Hex(data),
                  header |-> Hex(Slice(data, 0, 2)),
                  subtype |-> MeshSubtype(Len(data)),
                  pubkey |-> MeshPubkey(data),
                  node_name |-> MeshNodeName(data)]
            ELSE [length |-> Len(data), hex |-> Hex(data),
                  header |-> Hex(Slice(data, 0, 2)),
                  subtype |-> MeshSubtype(Len(data))]
    IN  [d |-> Count(d, "mesh_packets"),
         event |-> <<[type |-> "mesh_packet",
                      data |-> packet_data,
                      raw_frame |-> frame]>>]

TraceErrorNoMarker(frame) == [hex |-> Hex(frame)]
\* data={'hex': frame.hex(), 'error': 'packet too short'}
TraceError(frame) == [hex |-> Hex(frame), error |-> "packet too short"]

SnrStartAtHashes(path_len) == 12
\* snr_start = 12 + path_len
SnrStart(path_len) == 12 + path_len

\* path_hashes of _decode_trace
TraceHashes(frame, path_len) ==
    IF Len(frame) >= 12 + path_len
    THEN [i \in 1..path_len |-> Hex(<<frame[12 + i]>>)]
    ELSE <<>>

\* path_snrs of _decode_trace
TraceSnrs(frame, path_len) ==
    IF Len(frame) >= SnrStart(path_len) + (path_len + 1)
    THEN [i \in 1..(path_len + 1) |->
             Quarter(SignedByte(frame[SnrStart(path_len) + i]))]
    ELSE <<>>

\* _decode_trace; with 12 bytes or more nothing in its try block can raise
_decode_trace(d, frame) ==
    IF Len(frame) < 12
    THEN [d |-> d,
          event |-> <<[type |-> "trace", data |-> TraceError(frame),
                       raw_frame |-> frame]>>]
    ELSE
    LET path_len == frame[3]
    IN  [d |-> d,
         event |-> <<[type |-> "trace",
                      data |-> [hex |-> Hex(frame),
                                path_len |-> path_len,
                                flags |-> frame[4],
                                tag |-> UnpackI32(Slice(frame, 4, 8)),
                                auth_code |-> UnpackI32(Slice(frame, 8, 12)),
                                path_hashes |-> TraceHashes(frame, path_len),
                                path_snrs |-> TraceSnrs(frame, path_len)],
                      raw_frame |-> frame]>>]

\* the opcodes decode_frame routes
OP_CONTACT == 3
OP_END_CONTACTS == 4
OP_ACK == 130

UnroutedAsRaw(d, frame) == _decode_raw_data(d, frame)
\* no branch of decode_frame takes the opcode: event stays None
Unrouted(d, frame) == [d |-> d, event |-> <<>>]

\* decode_frame: the new decoder state and the event handed to the callback
decode_frame(d, frame) ==
    IF Len(frame) < 1 THEN [d |-> d, event |-> <<>>]
    ELSE
    LET d1 == [d EXCEPT !.stats.frames = @ + 1]
        code == frame[1]
    IN  CASE code = 8 -> _decode_channel_message(d1, frame)
          [] code = 16 -> _decode_0x10_message(d1, frame)
          [] code = 17 -> _decode_0x11_message(d1, frame)
          [] code = 7 -> _decode_direct_message(d1, frame)
          [] code = 136 -> _decode_mesh_packet(d1, frame)
          [] code = 128 -> _decode_advertisement(d1, frame)
          [] code = OP_CONTACT -> _decode_contact(d1, frame)
          [] code = OP_END_CONTACTS -> finalize_initial_contacts(d1)
          [] code = OP_ACK -> _decode_ack(d1, frame)
          [] code = 132 -> _decode_raw_data(d1, frame)
          [] code = 137 -> _decode_trace(d1, frame)
          [] code = MSG_WAITING -> [d |-> d1, event |-> <<>>]
          [] OTHER -> Unrouted(d1, frame)

handle_event_appendleft(log, entry) == <<entry>> \o log
\* the sink: handle_event queues what it is handed, behind what it holds
handle_event(log, entry) == Append(log, entry)

(***************************************************************************)
(* process_buffer as the read loop runs it.  It holds no await, so from    *)
(* the read that starts it (pc = "pb") to its return (pc = "read") no      *)
(* other task runs: only these four actions are enabled.                   *)
(***************************************************************************)
IsMsgWaitingOrEmpty(frame) == Len(frame) = 0 \/ frame[1] = MSG_WAITING

IsMsgWaitingAck(frame) == Len(frame) > 0 /\ frame[1] = 130
\* len(frame) > 0 and frame[0] == 0x83
IsMsgWaiting(frame) == Len(frame) > 0 /\ frame[1] = MSG_WAITING

LoopTopGiveUp(run, conn) ==
    IF ~run \/ ~conn THEN "done" ELSE "read"
LoopTopReconnect(run, conn) ==
    IF ~run THEN "done" ELSE IF ~conn THEN "delay" ELSE "read"
\* where the read loop suspends next, from the top of its while
LoopTop(run, conn) ==
    IF ~run THEN "done"
    ELSE IF ~conn THEN (IF auto_reconnect THEN "delay" ELSE "done")
    ELSE "read"

\* else: self.buffer.pop(0)
PB_Discard ==
    /\ pc = "pb"
    /\ HeaderReady(buffer)
    /\ buffer[1] # MARKER_IN
    /\ buffer' = DiscardOne(buffer)
    /\ dropped' = Append(dropped, buffer[1])
    /\ UNCHANGED <<connVars, decoderVars, pc, cur, tasks, wire, events, rx,
                   delivered, input>>

\* a complete frame: slice it out, and create the sync task on MSG_WAITING
PB_Slice ==
    /\ pc = "pb"
    /\ HeaderReady(buffer)
    /\ buffer[1] = MARKER_IN
    /\ FrameComplete(buffer)
    /\ cur' = <<SliceFrame(buffer)>>
    /\ buffer' = AfterSlice(buffer)
    /\ tasks' = IF IsMsgWaiting(SliceFrame(buffer)) THEN tasks + 1 ELSE tasks
    /\ pc' = "cb"
    /\ UNCHANGED <<connVars, decoderVars, wire, events, rx, delivered,
                   dropped, input>>

EmitOrUndo(d0, d1, raises) == IF raises THEN d0 ELSE d1
\* try: self.event_callback(event) / except Exception: the decoder changed
\* from d0 to d1 before the call, and stays changed when the sink raises
Emit(d0, d1, raises) == d1

\* self.frame_callback(frame): decode_frame, which hands its event to the
\* sink; the sink may raise, which decode_frame catches
PB_Callback ==
    /\ pc = "cb"
    /\ \E raises \in BOOLEAN :
         LET r0 == decode_frame(Decoder, cur[1])
             r == [d |-> Emit(Decoder, r0.d, raises), event |-> r0.event]
             entries == [i \in DOMAIN r.event |->
                            [ev |-> r.event[i],
                             src |-> Len(delivered) + 1,
                             raised |-> raises]]
         IN  /\ contacts' = r.d.contacts
             /\ initial_contact_loading' = r.d.initial_contact_loading
             /\ initial_contacts' = r.d.initial_contacts
             /\ stats' = r.d.stats
             /\ events' = IF entries = <<>> THEN events
                          ELSE handle_event(events, entries[1])
    /\ delivered' = Append(delivered, cur[1])
    /\ cur' = <<>>
    /\ pc' = "pb"
    /\ UNCHANGED <<connVars, buffer, tasks, wire, rx, dropped, input>>

PB_ReturnEarly ==
    /\ pc = "pb"
    /\ pc' = LoopTop(running, connected)
    /\ UNCHANGED <<connVars, decoderVars, buffer, cur, tasks, wire, events,
                   rx, delivered, dropped, input>>

\* the loop ends: fewer than 3 bytes, or an incomplete frame (break)
PB_Return ==
    /\ pc = "pb"
    /\ \/ ~HeaderReady(buffer)
       \/ HeaderReady(buffer) /\ buffer[1] = MARKER_IN /\ ~FrameComplete(buffer)
    /\ pc' = LoopTop(running, connected)
    /\ UNCHANGED <<connVars, decoderVars, buffer, cur, tasks, wire, events,
                   rx, delivered, dropped, input>>

ProcessBuffer == PB_Discard \/ PB_Slice \/ PB_Callback \/ PB_Return

(***************************************************************************)
(* The frame transport alone: a byte stream, a run of non-marker bytes     *)
(* followed by whole frames, read in chunks of every size.                 *)
(***************************************************************************)
MaxTFrames == 2

\* the frame bodies of the stream
TBodies == {<<>>, <<1>>, <<62, 0>>, <<0, 62, 1>>}

\* the runs of non-marker bytes before the frames
TGarbage == {<<>>, <<0>>, <<1, 0>>, <<0, 2, 0, 1>>}

RECURSIVE Concat(_)
Concat(ss) == IF ss = <<>> THEN <<>> ELSE ss[1] \o Concat(Tail(ss))

\* the node's byte stream for a sequence of frame bodies
InStream(bodies) == Concat([i \in DOMAIN bodies |-> InFrame(bodies[i])])

\* a connected session with its read loop running and nothing buffered
InitSession ==
    /\ buffer = <<>>
    /\ connected = TRUE
    /\ running = TRUE
    /\ writer = TRUE
    /\ link = "up"
    /\ cur = <<>>
    /\ tasks = 0
    /\ out = <<>>
    /\ hs = 0
    /\ conns = 1
    /\ syncs = 0
    /\ sent = 0
    /\ stopped = FALSE
    /\ auto_reconnect = TRUE
    /\ rx = <<>>
    /\ delivered = <<>>
    /\ dropped = <<>>

InitDecoder ==
    /\ contacts = NewDecoder.contacts
    /\ initial_contact_loading = NewDecoder.initial_contact_loading
    /\ initial_contacts = NewDecoder.initial_contacts
    /\ stats = NewDecoder.stats
    /\ events = <<>>

InitT ==
    /\ \E g \in TGarbage :
       \E n \in 0..MaxTFrames :
       \E bodies \in [1..n -> TBodies] :
         /\ input = [garbage |-> g, bodies |-> bodies]
         /\ wire = IF g \o InStream(bodies) = <<>> THEN <<>>
                   ELSE <<g \o InStream(bodies)>>
    /\ pc = "read"
    /\ InitSession
    /\ InitDecoder

\* data = await reader.read(4096); self.buffer.extend(data); process_buffer()
\* with the stream cut anywhere
T_Read ==
    /\ pc = "read"
    /\ wire # <<>>
    /\ \E k \in 1..Len(wire[1]) :
         LET data == SubSeq(wire[1], 1, k)
         IN  /\ buffer' = Extend(buffer, data)
             /\ rx' = rx \o data
             /\ wire' = IF k = Len(wire[1]) THEN <<>>
                        ELSE <<SubSeq(wire[1], k + 1, Len(wire[1]))>>
    /\ pc' = "pb"
    /\ UNCHANGED <<connVars, decoderVars, cur, tasks, events, delivered,
                   dropped, input>>

NextT == T_Read \/ PB_Discard \/ PB_Slice \/ PB_Callback \/ PB_Return

SpecT == InitT /\ [][NextT]_vars

(***************************************************************************)
(* Frame transport properties (SpecT)                                      *)
(***************************************************************************)
\* the read loop is between two reads
Idle == pc = "read"

\* the whole stream of the run
TStream == input.garbage \o InStream(input.bodies)

\* C1: for a valid concatenation of inbound frames cut into chunks in any
\* way, appending the chunks one at a time and running process_buffer after
\* each passes the callback the same frame bodies as appending the whole
\* sequence and running process_buffer once: after every chunk the bodies
\* passed and the buffer left are those of one run over the bytes appended so
\* far, and after the last chunk those of one run over the whole sequence.
C1_ChunkingEquivalence ==
    (Idle /\ input.garbage = <<>>) =>
        /\ delivered = process_buffer(rx).frames
        /\ buffer = process_buffer(rx).buffer
        /\ wire = <<>> => delivered = process_buffer(TStream).frames

\* a chunk boundary fell inside the second frame: the first body was passed
\* on, the head of the second is held in the buffer, its tail is still to come
C1_Witness ==
    /\ Idle /\ input.garbage = <<>>
    /\ Len(delivered) = 1
    /\ HeaderReady(buffer)
    /\ wire # <<>>

\* C2: a frame body is passed to the callback only if, when it was sliced,
\* the buffer started with 0x3E and held at least 3 + L bytes, L the
\* little-endian u16 of bytes 1..2, and the body passed has exactly L bytes.
C2_NoPartialFrame ==
    [][/\ cur' # cur /\ cur' # <<>> =>
            /\ cur = <<>>
            /\ buffer[1] = MARKER_IN
            /\ Len(buffer) >= 3 + (buffer[2] + 256 * buffer[3])
            /\ Len(cur'[1]) = buffer[2] + 256 * buffer[3]
            /\ cur'[1] = SubSeq(buffer, 4, 3 + (buffer[2] + 256 * buffer[3]))
       /\ delivered' # delivered =>
            /\ cur # <<>>
            /\ delivered' = Append(delivered, cur[1])]_vars

\* a 3-byte body, the second of the stream, is about to be passed on
C2_Witness ==
    /\ pc = "cb"
    /\ Len(cur[1]) = 3
    /\ Len(delivered) = 1

\* C4: with at least 3 bytes buffered and a first byte other than 0x3E,
\* process_buffer discards exactly that byte and nothing else; a run of
\* non-marker bytes before valid frames is discarded exactly, and the frames
\* passed on afterwards are the valid frames, unchanged and in order.
C4_Resync ==
    /\ [][(pc = "pb" /\ HeaderReady(buffer) /\ buffer[1] # MARKER_IN) =>
            /\ buffer' = Tail(buffer)
            /\ dropped' = Append(dropped, buffer[1])
            /\ UNCHANGED <<pc, cur, delivered, events, tasks, decoderVars>>]_vars
    /\ [](/\ Len(dropped) <= Len(input.garbage)
          /\ dropped = SubSeq(input.garbage, 1, Len(dropped)))
    /\ []((Idle /\ wire = <<>> /\ input.bodies # <<>>) =>
            /\ dropped = input.garbage
            /\ delivered = input.bodies)

\* a run of four non-marker bytes was discarded and the two frames after it
\* were passed on
C4_Witness ==
    /\ Idle /\ wire = <<>>
    /\ Len(dropped) = 4
    /\ Len(delivered) = 2

(***************************************************************************)
(* send_frame                                                              *)
(***************************************************************************)
\* bytes([cmd_code]) and struct.pack('<H', ...) accept the values
Encodable(cmd_code, data) == cmd_code \in 0..255 /\ 1 + Len(data) <= 65535

send_frame_torn(cmd_code, data) ==
    IF ~writer \/ ~connected
    THEN UNCHANGED <<out, connected>>
    ELSE out' = out \o SubSeq(OutFrame(cmd_code, data), 1, 2) /\ UNCHANGED connected

send_frame_unguarded(cmd_code, data) ==
    IF Encodable(cmd_code, data) /\ link \in {"up", "eof"}
    THEN out' = out \o OutFrame(cmd_code, data) /\ UNCHANGED connected
    ELSE connected' = FALSE /\ UNCHANGED out

\* send_frame: nothing when not connected; otherwise the frame is written,
\* or the write raises (unencodable values, a broken socket), which marks the
\* session disconnected
send_frame(cmd_code, data) ==
    IF ~writer \/ ~connected
    THEN UNCHANGED <<out, connected>>
    ELSE IF Encodable(cmd_code, data) /\ link \in {"up", "eof"}
         THEN out' = out \o OutFrame(cmd_code, data) /\ UNCHANGED connected
         ELSE connected' = FALSE /\ UNCHANGED out

(***************************************************************************)
(* The command encoder alone: one send_frame on a connected session, whose *)
(* bytes an inbound-style reader (marker replaced by 0x3E) then reads.     *)
(***************************************************************************)
Zeros(n) == [i \in 1..n |-> 0]

\* b"Discord Bridge"
APP_NAME == <<68, 105, 115, 99, 111, 114, 100, 32, 66, 114, 105, 100, 103, 101>>

\* the opcodes and payloads sent
ECmds == {0, 1, 10, 22, 62, 255}
EData == {<<>>, <<5>>, <<1, 0, 0, 0, 0, 0, 0>> \o APP_NAME, <<62, 1, 0, 9>>,
          Zeros(254), <<7>> \o Zeros(254), <<62>> \o Zeros(298)}

InitE ==
    /\ \E c \in ECmds : \E p \in EData : input = [cmd |-> c, data |-> p]
    /\ pc = "esend"
    /\ wire = <<>>
    /\ InitSession
    /\ InitDecoder

E_Send ==
    /\ pc = "esend"
    /\ send_frame(input.cmd, input.data)
    /\ pc' = "eloop"
    /\ UNCHANGED <<buffer, running, writer, cur, tasks, link, wire, hs, conns,
                   syncs, sent, stopped, auto_reconnect, decoderVars, events,
                   rx, delivered, dropped, input>>

\* the bytes written come back with the inbound marker and are read in one
\* chunk; the stream starts with the marker, so process_buffer never takes
\* its discard branch here
E_Loopback ==
    /\ pc = "eloop"
    /\ LET data == [out EXCEPT ![1] = MARKER_IN]
       IN  /\ buffer' = Extend(buffer, data)
           /\ rx' = rx \o data
    /\ pc' = "pb"
    /\ UNCHANGED <<connVars, decoderVars, wire, cur, tasks, events,
                   delivered, dropped, input>>

NextE == E_Send \/ E_Loopback \/ PB_Slice \/ PB_Callback \/ PB_Return

SpecE == InitE /\ [][NextE]_vars

\* C10: for an opcode byte c and a payload p with 1 + len(p) <= 65535,
\* send_frame on a connected session writes 0x3C, then 1 + len(p) as a
\* little-endian u16, then c, then p; an inbound-style reader of those bytes
\* (marker replaced by 0x3E) recovers c followed by p.
C10_SendFrameFormat ==
    LET c == input.cmd
        p == input.data
        n == 1 + Len(p)
    IN  /\ pc # "esend" =>
            /\ Len(out) = 4 + Len(p)
            /\ out[1] = 60
            /\ out[2] = n % 256
            /\ out[3] = n \div 256
            /\ out[4] = c
            /\ SubSeq(out, 5, Len(out)) = p
        /\ Idle => delivered = << <<c>> \o p >>
        /\ Len(delivered) <= 1

\* a frame whose declared length needs the high length byte was written and
\* read back
C10_Witness ==
    /\ Idle
    /\ Len(input.data) = 255
    /\ out[2] = 0 /\ out[3] = 1
    /\ Len(delivered) = 1

(***************************************************************************)
(* The session: start() connects and initializes, then the read loop, the  *)
(* periodic sync and the tasks process_buffer creates run as asyncio tasks *)
(* of one event loop.  A task runs from one await to the next without      *)
(* interruption, so each action below is one such stretch, and the other   *)
(* tasks (and the node) act only while the read loop is suspended.         *)
(*                                                                         *)
(* pc: "start"/"init0" start() in connect()/initialize(); "read" the loop  *)
(* awaits reader.read; "pb"/"cb" inside process_buffer; "delay" the        *)
(* reconnect delay; "open"/"init" the loop's connect()/initialize();       *)
(* "errsleep" the sleep of its except branch; "done" the loop has ended.   *)
(***************************************************************************)
MaxFrames == 2
MaxConns == 2
MaxSyncs == 1

\* a contact frame with a name (132 bytes, node type 2)
CONTACT_A ==
    <<3, 171, 205, 1, 2, 3, 4>> \o Zeros(26) \o <<2>> \o Zeros(66)
        \o <<65, 255, 66>> \o Zeros(29)

\* a contact frame of the minimum length (100 bytes, node type 7)
CONTACT_B == <<3, 16, 32, 48, 64, 80, 96>> \o Zeros(26) \o <<7>> \o Zeros(66)

END_CONTACTS == <<4>>
MSG_WAITING_FRAME == <<131>>
ACK_FRAME == <<130, 1, 2, 3, 4, 10, 1, 0, 0>>

\* three bytes of line noise
NOISE == <<0, 255, 0>>

\* what the node sends in one piece: a whole frame, or noise
NodeSegments ==
    {InFrame(CONTACT_A), InFrame(END_CONTACTS), InFrame(MSG_WAITING_FRAME),
     NOISE}

HandshakeSyncFirst ==
    <<[cmd |-> CMD_SYNC_NEXT_MESSAGE, data |-> <<>>],
      [cmd |-> 22, data |-> <<5>>],
      [cmd |-> 1, data |-> <<1, 0, 0, 0, 0, 0, 0>> \o APP_NAME],
      [cmd |-> 4, data |-> <<>>],
      [cmd |-> CMD_SYNC_NEXT_MESSAGE, data |-> <<>>],
      [cmd |-> CMD_SYNC_NEXT_MESSAGE, data |-> <<>>],
      [cmd |-> CMD_SYNC_NEXT_MESSAGE, data |-> <<>>],
      [cmd |-> CMD_SYNC_NEXT_MESSAGE, data |-> <<>>]>>

\* the requests of initialize, in order
Handshake ==
    <<[cmd |-> 22, data |-> <<5>>],
      [cmd |-> 1, data |-> <<1, 0, 0, 0, 0, 0, 0>> \o APP_NAME],
      [cmd |-> 4, data |-> <<>>],
      [cmd |-> CMD_SYNC_NEXT_MESSAGE, data |-> <<>>],
      [cmd |-> CMD_SYNC_NEXT_MESSAGE, data |-> <<>>],
      [cmd |-> CMD_SYNC_NEXT_MESSAGE, data |-> <<>>],
      [cmd |-> CMD_SYNC_NEXT_MESSAGE, data |-> <<>>],
      [cmd |-> CMD_SYNC_NEXT_MESSAGE, data |-> <<>>]>>

\* the read loop is suspended in an await (or has ended): other tasks may run
AtAwait == pc \notin {"pb", "cb"}

\* start() has created the read loop and the periodic sync
LoopStarted == pc \notin {"start", "init0"}

Init ==
    /\ pc = "start"
    /\ buffer = <<>>
    /\ connected = FALSE
    /\ running = FALSE
    /\ writer = FALSE
    /\ link = "down"
    /\ wire = <<>>
    /\ out = <<>>
    /\ cur = <<>>
    /\ tasks = 0
    /\ hs = 0
    /\ conns = 0
    /\ syncs = 0
    /\ sent = 0
    /\ stopped = FALSE
    /\ auto_reconnect \in BOOLEAN
    /\ InitDecoder
    /\ rx = <<>>
    /\ delivered = <<>>
    /\ dropped = <<>>
    /\ input = <<>>

\* asyncio.open_connection succeeded: connect() lines 41-44
Opened(next) ==
    /\ conns < MaxConns
    /\ link' = "up"
    /\ wire' = <<>>
    /\ out' = <<>>
    /\ writer' = TRUE
    /\ connected' = TRUE
    /\ conns' = conns + 1
    /\ hs' = 0
    /\ pc' = next

\* start(): connect(); when open_connection fails start() returns
Start_Open ==
    /\ pc = "start"
    /\ \/ Opened("init0")
       \/ /\ connected' = FALSE
          /\ pc' = "done"
          /\ UNCHANGED <<link, wire, out, writer, conns, sent, hs>>
    /\ UNCHANGED <<buffer, running, cur, tasks, syncs, sent, stopped,
                   auto_reconnect, decoderVars, events, rx, delivered,
                   dropped, input>>

\* initialize(): one request and the sleep after it; once the session is not
\* connected every request left returns at once, and they are taken together
Init_Send ==
    /\ pc \in {"init0", "init"}
    /\ hs < Len(Handshake)
    /\ send_frame(Handshake[hs + 1].cmd, Handshake[hs + 1].data)
    /\ hs' = IF connected' THEN hs + 1 ELSE Len(Handshake)
    /\ UNCHANGED <<buffer, running, writer, pc, cur, tasks, link, wire, conns,
                   syncs, sent, stopped, auto_reconnect, decoderVars, events,
                   rx, delivered, dropped, input>>

\* start(): connect() returned True; the read loop starts (running = True)
\* and runs to its first await
Start_Loop ==
    /\ pc = "init0"
    /\ hs = Len(Handshake)
    /\ running' = TRUE
    /\ pc' = LoopTop(TRUE, connected)
    /\ UNCHANGED <<buffer, connected, writer, cur, tasks, link, wire, out, hs,
                   conns, syncs, sent, stopped, auto_reconnect, decoderVars,
                   events, rx, delivered, dropped, input>>

\* read_loop: connect() returned; the loop goes on to the read
Loop_Connected ==
    /\ pc = "init"
    /\ hs = Len(Handshake)
    /\ pc' = "read"
    /\ UNCHANGED <<buffer, connVars, cur, tasks, wire, decoderVars, events,
                   rx, delivered, dropped, input>>

\* read_loop: the reconnect delay is over; connect() is called
Loop_Delay ==
    /\ pc = "delay"
    /\ pc' = "open"
    /\ UNCHANGED <<buffer, connVars, cur, tasks, wire, decoderVars, events,
                   rx, delivered, dropped, input>>

\* read_loop: connect(); when open_connection fails connect() returns False
\* and the loop goes on to read from the reader it has
Loop_Open ==
    /\ pc = "open"
    /\ \/ Opened("init")
       \/ /\ connected' = FALSE
          /\ pc' = "read"
          /\ UNCHANGED <<link, wire, out, writer, conns, sent, hs>>
    /\ UNCHANGED <<buffer, running, cur, tasks, syncs, sent, stopped,
                   auto_reconnect, decoderVars, events, rx, delivered,
                   dropped, input>>

\* read_loop: the read returns data, one segment or all that has arrived
Loop_Read ==
    /\ pc = "read"
    /\ link \in {"up", "eof"}
    /\ wire # <<>>
    /\ \E n \in {1, Len(wire)} :
         LET data == Concat(SubSeq(wire, 1, n))
         IN  /\ buffer' = Extend(buffer, data)
             /\ rx' = rx \o data
             /\ wire' = SubSeq(wire, n + 1, Len(wire))
    /\ pc' = "pb"
    /\ UNCHANGED <<connVars, decoderVars, cur, tasks, events, delivered,
                   dropped, input>>

\* read_loop: the read returns b'' (the node closed, or we closed the writer)
Loop_ReadEOF ==
    /\ pc = "read"
    /\ \/ link = "eof" /\ wire = <<>>
       \/ link = "closed"
    /\ connected' = FALSE
    /\ pc' = LoopTop(running, FALSE)
    /\ UNCHANGED <<buffer, running, writer, cur, tasks, link, wire, out, hs,
                   conns, syncs, sent, stopped, auto_reconnect, decoderVars,
                   events, rx, delivered, dropped, input>>

\* read_loop: the read raises; except Exception, then sleep(1)
Loop_ReadError ==
    /\ pc = "read"
    /\ link = "reset"
    /\ connected' = FALSE
    /\ pc' = "errsleep"
    /\ UNCHANGED <<buffer, running, writer, cur, tasks, link, wire, out, hs,
                   conns, syncs, sent, stopped, auto_reconnect, decoderVars,
                   events, rx, delivered, dropped, input>>

\* read_loop: the read times out (continue), or the sleep(1) of the except
\* branch ends: back to the top of the while
Loop_Continue ==
    /\ \/ pc = "read" /\ link = "up" /\ wire = <<>>
       \/ pc = "errsleep"
    /\ pc' = LoopTop(running, connected)
    /\ UNCHANGED <<buffer, connVars, cur, tasks, wire, decoderVars, events,
                   rx, delivered, dropped, input>>

\* a task created by process_buffer runs: send_frame(10)
SendTask ==
    /\ AtAwait
    /\ tasks > 0
    /\ send_frame(CMD_SYNC_NEXT_MESSAGE, <<>>)
    /\ tasks' = tasks - 1
    /\ UNCHANGED <<buffer, running, writer, pc, cur, link, wire, hs, conns,
                   syncs, sent, stopped, auto_reconnect, decoderVars, events,
                   rx, delivered, dropped, input>>

\* periodic_sync wakes up from sleep(30): a request when connected, nothing
\* otherwise
PeriodicSync ==
    /\ AtAwait
    /\ LoopStarted
    /\ running
    /\ syncs < MaxSyncs
    /\ IF connected
       THEN send_frame(CMD_SYNC_NEXT_MESSAGE, <<>>) /\ syncs' = syncs + 1
       ELSE UNCHANGED <<out, connected, syncs>>
    /\ UNCHANGED <<buffer, running, writer, pc, cur, tasks, link, wire, hs,
                   conns, sent, stopped, auto_reconnect, decoderVars, events,
                   rx, delivered, dropped, input>>

\* disconnect(), called by stop() while the read loop is suspended
Disconnect ==
    /\ AtAwait
    /\ LoopStarted
    /\ ~stopped
    /\ running' = FALSE
    /\ connected' = FALSE
    /\ link' = IF writer THEN "closed" ELSE link
    /\ wire' = <<>>
    /\ stopped' = TRUE
    /\ UNCHANGED <<buffer, writer, pc, cur, tasks, out, hs, conns, syncs, sent,
                   auto_reconnect, decoderVars, events, rx, delivered,
                   dropped, input>>

\* the node sends a segment; what it sends while the loop is not reading
\* waits on the wire, as if sent when the loop is next suspended in its read
NodeSend ==
    /\ pc = "read"
    /\ link = "up"
    /\ sent < MaxFrames
    /\ \E seg \in NodeSegments : wire' = Append(wire, seg)
    /\ sent' = sent + 1
    /\ UNCHANGED <<buffer, connected, running, writer, link, out, hs, conns,
                   syncs, stopped, auto_reconnect, pc, cur, tasks,
                   decoderVars, events, rx, delivered, dropped, input>>

\* the node closes the connection: what it sent can still be read, and the
\* loop learns of it at its next read
NodeClose ==
    /\ pc = "read"
    /\ link = "up"
    /\ link' = "eof"
    /\ UNCHANGED <<buffer, connected, running, writer, pc, cur, tasks, wire,
                   out, hs, conns, syncs, sent, stopped, auto_reconnect,
                   decoderVars, events, rx, delivered, dropped, input>>

\* the connection breaks: what was in flight is lost
NodeReset ==
    /\ AtAwait
    /\ link \in {"up", "eof"}
    /\ link' = "reset"
    /\ wire' = <<>>
    /\ UNCHANGED <<buffer, connected, running, writer, pc, cur, tasks, out, hs,
                   conns, syncs, sent, stopped, auto_reconnect, decoderVars,
                   events, rx, delivered, dropped, input>>

Next ==
    \/ Start_Open \/ Init_Send \/ Start_Loop
    \/ Loop_Connected \/ Loop_Delay \/ Loop_Open
    \/ Loop_Read \/ Loop_ReadEOF \/ Loop_ReadError \/ Loop_Continue
    \/ PB_Discard \/ PB_Slice \/ PB_Callback \/ PB_Return
    \/ SendTask \/ PeriodicSync \/ Disconnect
    \/ NodeSend \/ NodeClose \/ NodeReset

Spec == Init /\ [][Next]_vars

(***************************************************************************)
(* Decoding (SpecD): one connected session whose node sends contact,       *)
(* end-of-contacts, acknowledgement and message-waiting frames and noise;  *)
(* the connection stays up, so input is what reaches the reader, in order. *)
(***************************************************************************)
MaxDFrames == 3

DSegments ==
    {InFrame(CONTACT_A), InFrame(CONTACT_B), InFrame(END_CONTACTS),
     InFrame(ACK_FRAME), InFrame(MSG_WAITING_FRAME), NOISE}

InitD ==
    /\ pc = "read"
    /\ wire = <<>>
    /\ input = <<>>
    /\ InitSession
    /\ InitDecoder

\* the node sends a segment
D_Send ==
    /\ pc = "read"
    /\ Len(input) < MaxDFrames
    /\ \E seg \in DSegments :
         /\ wire' = Append(wire, seg)
         /\ input' = Append(input, seg)
    /\ UNCHANGED <<buffer, connVars, pc, cur, tasks, decoderVars, events, rx,
                   delivered, dropped>>

NextD ==
    \/ D_Send \/ Loop_Read
    \/ PB_Discard \/ PB_Slice \/ PB_Callback \/ PB_Return
    \/ SendTask

SpecD == InitD /\ [][NextD]_vars

(***************************************************************************)
(* The read loop and the sync tasks of one connection, from its first read *)
(* until it is lost (SpecF), under the fairness of the event loop:         *)
(* process_buffer runs to its return, and a task that was created is run.  *)
(***************************************************************************)
InitF ==
    /\ pc = "read"
    /\ wire = <<>>
    /\ input = <<>>
    /\ InitSession
    /\ InitDecoder

NextF ==
    \/ Loop_Read \/ Loop_ReadEOF \/ Loop_ReadError \/ Loop_Continue
    \/ PB_Discard \/ PB_Slice \/ PB_Callback \/ PB_Return
    \/ SendTask \/ Disconnect
    \/ NodeSend \/ NodeClose \/ NodeReset

SpecF ==
    /\ InitF
    /\ [][NextF]_vars
    /\ WF_vars(ProcessBuffer)
    /\ SF_vars(SendTask)

(***************************************************************************)
(* Decoding properties (SpecD)                                             *)
(***************************************************************************)
IsFrameSegment(seg) == seg[1] = MARKER_IN

\* the frames the node has sent, in wire order
WireFrames ==
    LET segs == SelectSeq(input, IsFrameSegment)
    IN  [i \in DOMAIN segs |-> SubSeq(segs[i], 4, Len(segs[i]))]

\* the sink's entry e holds the event of the frame it names
EventOfItsFrame(e) ==
    /\ e.src \in DOMAIN delivered
    /\ IF e.ev.type = "contact_summary"
       THEN delivered[e.src][1] = 4
       ELSE e.ev.raw_frame = delivered[e.src]

\* log2 is log with one entry more, at its end
OneMore(log, log2) ==
    /\ Len(log2) = Len(log) + 1
    /\ SubSeq(log2, 1, Len(log)) = log

\* C3: frames reach the frame callback one at a time and in the order the
\* node sent them: a frame is sliced out of the buffer only when the callback
\* of the frame before it has returned, an event reaches the sink only during
\* the callback of its frame, and the sink holds the events in the order of
\* the frames that produced them.
C3_WireOrder ==
    /\ [](/\ Len(delivered) + Len(cur) <= Len(WireFrames)
          /\ \A k \in DOMAIN delivered : delivered[k] = WireFrames[k]
          /\ cur # <<>> => cur[1] = WireFrames[Len(delivered) + 1]
          /\ \A i \in DOMAIN events : EventOfItsFrame(events[i])
          /\ \A i, j \in DOMAIN events :
                i < j => events[i].src < events[j].src)
    /\ [][/\ (cur' # cur /\ cur' # <<>>) => cur = <<>>
          /\ events' # events =>
                /\ cur # <<>>
                /\ cur' = <<>>
                /\ OneMore(events, events')
                /\ events'[Len(events')].src = Len(delivered')
                /\ delivered'[Len(delivered')] = cur[1]]_vars

\* three frames, three events, in the order of the frames
C3_Witness ==
    /\ pc = "read"
    /\ delivered = <<END_CONTACTS, ACK_FRAME, CONTACT_B>>
    /\ Len(events) = 3
    /\ events[1].ev.type = "contact_summary"
    /\ events[2].ev.type = "ack"
    /\ events[3].ev.type = "contact"

\* the callback is about to decode a contact frame of 100 bytes or more
ContactStep == pc = "cb" /\ Len(cur[1]) >= 100 /\ cur[1][1] = 3

\* C6: decoding a contact frame (opcode 0x03, 100 bytes or more) sets the
\* directory entry of the frame's 6-byte key prefix in both phases; while
\* BOOTSTRAPPING it hands no event to the sink and appends exactly one entry
\* to the pending list; when LIVE it hands exactly one CONTACT event, of that
\* frame, to the sink and leaves the pending list alone.
C6_ContactFrame ==
    [][ContactStep =>
        LET frame == cur[1]
            key == Hex(SubSeq(frame, 2, 7))
        IN  /\ key \in DOMAIN contacts'
            /\ contacts'[key] = ContactName(frame)
            /\ IF initial_contact_loading
               THEN /\ events' = events
                    /\ OneMore(initial_contacts, initial_contacts')
                    /\ initial_contacts'[Len(initial_contacts')].pubkey
                          = Hex(SubSeq(frame, 2, 33))
               ELSE /\ OneMore(events, events')
                    /\ events'[Len(events')].ev.type = "contact"
                    /\ events'[Len(events')].ev.raw_frame = frame
                    /\ initial_contacts' = initial_contacts]_vars

\* the same frame decoded in both phases: pending first, an event later
C6_Witness ==
    /\ delivered = <<CONTACT_A, END_CONTACTS, CONTACT_A>>
    /\ Len(events) = 2
    /\ events[1].ev.data.total = 1
    /\ events[2].ev.type = "contact"
    /\ events[2].ev.raw_frame = CONTACT_A
    /\ initial_contacts = <<>>
    /\ DOMAIN contacts = {Hex(<<171, 205, 1, 2, 3, 4>>)}

IsAcceptedContact(frame) == Len(frame) >= 100 /\ frame[1] = 3

\* the contact frames accepted so far, in arrival order
Accepted == SelectSeq(delivered, IsAcceptedContact)

\* the pending-list entry of a contact frame
ContactEntry(frame) ==
    [name |-> ContactName(frame),
     type |-> ContactType(frame),
     pubkey |-> Hex(SubSeq(frame, 2, 33))]

RECURSIVE SumCounts(_)
SumCounts(f) ==
    IF DOMAIN f = {} THEN 0
    ELSE LET t == CHOOSE u \in DOMAIN f : TRUE
         IN  f[t] + SumCounts([u \in DOMAIN f \ {t} |-> f[u]])

\* the callback is about to decode an end-of-contacts frame
EndStep == pc = "cb" /\ Len(cur[1]) >= 1 /\ cur[1][1] = 4

\* C7: while BOOTSTRAPPING the pending list holds the entries of the contact
\* frames accepted so far, in arrival order; the end-of-contacts frame decoded
\* then hands the sink exactly one CONTACT_SUMMARY event, whose total is the
\* number of those frames, whose per-type counts sum to the total and whose
\* contact list is the pending list, and leaves the pending list empty and
\* the session LIVE; an end-of-contacts frame hands the sink nothing else.
C7_Summary ==
    /\ [](initial_contact_loading =>
             /\ Len(initial_contacts) = Len(Accepted)
             /\ \A i \in DOMAIN Accepted :
                   initial_contacts[i] = ContactEntry(Accepted[i]))
    /\ [][EndStep =>
          IF initial_contact_loading
          THEN /\ OneMore(events, events')
               /\ LET e == events'[Len(events')].ev
                  IN  /\ e.type = "contact_summary"
                      /\ e.data.total = Len(Accepted)
                      /\ SumCounts(e.data.by_type) = e.data.total
                      /\ e.data.contacts = initial_contacts
               /\ initial_contacts' = <<>>
               /\ ~initial_contact_loading'
          ELSE events' = events]_vars

\* a summary of two contacts of two types
C7_Witness ==
    /\ delivered = <<CONTACT_A, CONTACT_B, END_CONTACTS>>
    /\ Len(events) = 1
    /\ events[1].ev.type = "contact_summary"
    /\ events[1].ev.data.total = 2
    /\ events[1].ev.data.by_type = (<<"REPEATER">> :> 1) @@ (<<"TYPE_", 7>> :> 1)
    /\ ~initial_contact_loading
    /\ initial_contacts = <<>>

NumSummaries ==
    Cardinality({i \in DOMAIN events : events[i].ev.type = "contact_summary"})

NumEndFrames ==
    Cardinality({k \in DOMAIN delivered : delivered[k][1] = 4})

\* C8: once an end-of-contacts frame has been decoded the sink holds exactly
\* one CONTACT_SUMMARY event, however many such frames follow (and none
\* before); an end-of-contacts frame decoded when LIVE hands the sink
\* nothing and changes neither the directory, the flag, the pending list nor
\* a counter other than the frames-seen counter, which it increments.
C8_Idempotent ==
    /\ [](NumSummaries = IF NumEndFrames >= 1 THEN 1 ELSE 0)
    /\ [][(EndStep /\ ~initial_contact_loading) =>
             /\ events' = events
             /\ contacts' = contacts
             /\ initial_contact_loading' = initial_contact_loading
             /\ initial_contacts' = initial_contacts
             /\ stats' = [stats EXCEPT !.frames = @ + 1]]_vars

\* two finalizations after a contact: one summary, three frames counted
C8_Witness ==
    /\ delivered = <<CONTACT_A, END_CONTACTS, END_CONTACTS>>
    /\ NumSummaries = 1
    /\ Len(events) = 1
    /\ stats.frames = 3

(***************************************************************************)
(* Session properties (Spec, SpecF)                                        *)
(***************************************************************************)
\* C5: the decoder starts BOOTSTRAPPING (initial_contact_loading = TRUE) and
\* the flag only ever changes from TRUE to FALSE, so at most once, whatever
\* frames arrive, whether the sink raises, and across the loss of the
\* connection, disconnect() and reconnection.
C5_FlagMonotonic ==
    /\ initial_contact_loading = TRUE
    /\ [][~initial_contact_loading => ~initial_contact_loading']_vars

\* LIVE on a second connection, after two end-of-contacts frames and a sink
\* failure
C5_Witness ==
    /\ ~initial_contact_loading
    /\ conns = 2
    /\ connected
    /\ pc = "read"
    /\ delivered = <<END_CONTACTS, END_CONTACTS>>
    /\ Len(events) = 1
    /\ events[1].raised

\* C9: slicing a frame creates a sync task exactly when its opcode is 0x83,
\* and tasks are created in no other way; the callback of such a frame hands
\* the sink nothing; the tasks created are eventually all run, and a task
\* run on a connected session writes the request (0x3C, length 1, opcode 10)
\* or marks the session disconnected, while on a disconnected one it writes
\* nothing.
C9_MsgWaiting ==
    /\ [][/\ (pc = "pb" /\ pc' = "cb") =>
                tasks' = IF Len(cur'[1]) > 0 /\ cur'[1][1] = 131
                         THEN tasks + 1 ELSE tasks
          /\ tasks' > tasks => (pc = "pb" /\ pc' = "cb")
          /\ (pc = "cb" /\ Len(cur[1]) > 0 /\ cur[1][1] = 131) =>
                events' = events
          /\ tasks' < tasks =>
                /\ tasks' = tasks - 1
                /\ IF connected /\ writer
                   THEN \/ out' = out \o <<60, 1, 0, 10>> /\ connected'
                        \/ out' = out /\ ~connected'
                   ELSE out' = out /\ connected' = connected]_vars
    /\ (tasks > 0) ~> (tasks = 0)

\* a message-waiting frame was decoded, its request is on the wire, and the
\* sink has seen nothing
C9_Witness ==
    /\ delivered = <<MSG_WAITING_FRAME>>
    /\ tasks = 0
    /\ connected
    /\ syncs = 0
    /\ out = <<60, 1, 0, 10>>
    /\ events = <<>>

(***************************************************************************)
(* Trace decoding (SpecR): one connected session whose node sends one      *)
(* trace frame: a header, path hashes and SNR bytes, cut to any length.    *)
(***************************************************************************)
MaxPathLen == 3

\* the example of test_trace_decoder.py
TRACE_EXAMPLE ==
    <<137, 0, 3, 0, 1, 0, 0, 0, 0, 0, 0, 0, 161, 178, 195, 50, 40, 30, 20>>

\* a trace frame of path length p, with the example's values (neg = FALSE) or
\* with negative tag, auth code and SNRs (neg = TRUE), and one byte after it
TraceBytes(p, neg) ==
    IF neg
    THEN <<137, 0, p, 255, 255, 255, 255, 255, 0, 0, 0, 128>>
            \o [i \in 1..p |-> IF i % 2 = 1 THEN 0 ELSE 255]
            \o [i \in 1..(p + 1) |-> 256 - 8 * i]
            \o <<7>>
    ELSE <<137, 0, p, 0, 1, 0, 0, 0, 0, 0, 0, 0>>
            \o [i \in 1..p |-> 144 + 17 * i]
            \o [i \in 1..(p + 1) |-> 60 - 10 * i]
            \o <<7>>

TraceFrames ==
    {SubSeq(TraceBytes(p, neg), 1, n) :
        <<p, neg, n>> \in {t \in (0..MaxPathLen) \X BOOLEAN \X (1..(2 * MaxPathLen + 14)) :
                              t[3] <= 2 * t[1] + 14}}

InitR ==
    /\ \E f \in TraceFrames :
         /\ input = [frame |-> f]
         /\ wire = <<InFrame(f)>>
    /\ pc = "read"
    /\ InitSession
    /\ InitDecoder

NextR == Loop_Read \/ PB_Slice \/ PB_Callback \/ PB_Return

SpecR == InitR /\ [][NextR]_vars

(***************************************************************************)
(* Trace properties (SpecR)                                                *)
(***************************************************************************)
\* the trace frame has been decoded
TraceDone == delivered # <<>>

\* the path length byte of the frame decoded
TracePathLen == delivered[1][3]

\* C13: a trace frame of fewer than 12 bytes hands the sink exactly one TRACE
\* event, whose data holds the hex of the frame and an error marker and
\* nothing else.
C13_TraceTooShort ==
    (TraceDone /\ Len(delivered[1]) < 12) =>
        /\ Len(events) = 1
        /\ events[1].ev.type = "trace"
        /\ events[1].ev.raw_frame = delivered[1]
        /\ DOMAIN events[1].ev.data = {"hex", "error"}
        /\ Len(events[1].ev.data.hex) = 2 * Len(delivered[1])
        /\ \A i \in DOMAIN delivered[1] :
              16 * events[1].ev.data.hex[2 * i - 1] + events[1].ev.data.hex[2 * i]
                 = delivered[1][i]

\* a header cut after 11 bytes
C13_Witness ==
    /\ TraceDone
    /\ Len(delivered[1]) = 11
    /\ Len(events) = 1
    /\ events[1].ev.data.error = "packet too short"

\* the bytes of frame from offset a (0-based), at most n of them
Present(frame, a, n) == Slice(frame, a, a + n)

\* C14: a trace frame of 12 bytes or more, shorter than 12 + pathLen +
\* (pathLen + 1), gives one TRACE event with no error marker whose hash list
\* holds the min(pathLen, len - 12) hash bytes present and whose SNR list
\* holds the SNR bytes present after the hashes.
C14_TraceBestEffort ==
    (/\ TraceDone
     /\ Len(delivered[1]) >= 12
     /\ Len(delivered[1]) < 12 + TracePathLen + (TracePathLen + 1)) =>
        /\ Len(events) = 1
        /\ events[1].ev.type = "trace"
        /\ "error" \notin DOMAIN events[1].ev.data
        /\ LET hashes == Present(delivered[1], 12, TracePathLen)
               snrs == Present(delivered[1], 12 + TracePathLen, TracePathLen + 1)
           IN  /\ Len(events[1].ev.data.path_hashes) = Len(hashes)
               /\ Len(events[1].ev.data.path_snrs) = Len(snrs)
               /\ \A i \in DOMAIN hashes :
                     events[1].ev.data.path_hashes[i]
                        = <<hashes[i] \div 16, hashes[i] % 16>>
               /\ \A i \in DOMAIN snrs :
                     events[1].ev.data.path_snrs[i].num
                        = IF snrs[i] < 128 THEN snrs[i] ELSE snrs[i] - 256

\* the little-endian two's complement value of four bytes
LeInt32(b) ==
    LET low == b[1] + 256 * (b[2] + 256 * (b[3] + 256 * (b[4] % 128)))
    IN  IF b[4] >= 128 THEN low - 2147483647 - 1 ELSE low

\* C15: a trace frame of 12 + pathLen + (pathLen + 1) bytes or more decodes
\* to pathLen = byte 2, flags = byte 3, tag and auth code the little-endian
\* int32 at bytes 4..7 and 8..11, exactly pathLen hashes (bytes 12.. in
\* order) and exactly pathLen + 1 SNRs (the bytes after them, in order, each
\* the signed byte over 4), so that len(path_snrs) - 1 = pathLen; the example
\* of the test gives tag 1, auth code 0, hashes a1 b2 c3 and raw SNRs 50, 40,
\* 30, 20.
C15_TraceFull ==
    /\ (/\ TraceDone
        /\ Len(delivered[1]) >= 12
        /\ Len(delivered[1]) >= 12 + TracePathLen + (TracePathLen + 1)) =>
          LET f == delivered[1]
              n == TracePathLen
              data == events[1].ev.data
          IN  /\ Len(events) = 1
              /\ events[1].ev.type = "trace"
              /\ "error" \notin DOMAIN data
              /\ data.path_len = f[3]
              /\ data.flags = f[4]
              /\ data.tag = LeInt32(SubSeq(f, 5, 8))
              /\ data.auth_code = LeInt32(SubSeq(f, 9, 12))
              /\ Len(data.path_hashes) = n
              /\ \A i \in 1..n :
                    data.path_hashes[i] = <<f[12 + i] \div 16, f[12 + i] % 16>>
              /\ Len(data.path_snrs) = n + 1
              /\ \A i \in 1..(n + 1) :
                    /\ data.path_snrs[i].den = 4
                    /\ data.path_snrs[i].num =
                          IF f[12 + n + i] < 128 THEN f[12 + n + i]
                          ELSE f[12 + n + i] - 256
              /\ Len(data.path_snrs) - 1 = data.path_len
    /\ (TraceDone /\ delivered[1] = TRACE_EXAMPLE) =>
          /\ events[1].ev.data.tag = 1
          /\ events[1].ev.data.auth_code = 0
          /\ events[1].ev.data.path_hashes = <<<<10, 1>>, <<11, 2>>, <<12, 3>>>>
          /\ events[1].ev.data.path_snrs
                = <<Quarter(50), Quarter(40), Quarter(30), Quarter(20)>>
          /\ Len(events[1].ev.data.path_snrs) - 1 = 3

\* the example of the test has been decoded
C15_Witness ==
    /\ TraceDone
    /\ delivered[1] = TRACE_EXAMPLE
    /\ Len(events) = 1
    /\ events[1].ev.data.path_len = 3
    /\ pc = "read"

(***************************************************************************)
(* Decoding every frame type (SpecG): one connected session whose node     *)
(* sends whole frames of every opcode: unknown opcodes, frames one byte    *)
(* short of their type's minimum, messages, advertisements, contacts; one  *)
(* frame per read (SpecT and SpecD cover the chunking).  input is the     *)
(* sequence of the frame bodies sent.                                      *)
(***************************************************************************)
MaxGFrames == 2

\* 'Alice: hello', 'no-colon-here', 'a: b: c'
TEXT_ALICE == <<65, 108, 105, 99, 101, 58, 32, 104, 101, 108, 108, 111>>
TEXT_PLAIN == <<110, 111, 45, 99, 111, 108, 111, 110, 45, 104, 101, 114, 101>>
TEXT_TWICE == <<97, 58, 32, 98, 58, 32, 99>>

\* the first six bytes of CONTACT_A's public key, and of a key no contact has
KEY_A == <<171, 205, 1, 2, 3, 4>>
KEY_X == <<222, 173, 190, 239, 0, 1>>

\* 0x11: channel at 4, hops at 5, timestamp at 6..9, text from 11
MsgD(channel, text) == <<17, 0, 0, 0, channel, 2, 1, 0, 0, 0, 0>> \o text
\* 0x08: channel at 1, hops at 2, timestamp at 4..7, text from 8
MsgA(channel, text) == <<8, channel, 255, 0, 1, 0, 0, 0>> \o text
\* 0x07: sender key at 1..6, hops at 7, text from 13
MsgB(key, text) == <<7>> \o key \o <<1, 0, 0, 0, 0, 0>> \o text
\* 0x10: sender key at 4..9, hops at 10, timestamp at 12..15, text from 16
MsgC(key, text) == <<16, 0, 0, 0>> \o key \o <<3, 0, 1, 0, 0, 0>> \o text
\* 0x80: public key at 1..32
Advert(key) == <<128>> \o key \o Zeros(25) \o <<9>>

RAW_FRAME == <<132, 40, 200, 0, 1, 2>>
MESH_FRAME == <<136, 1, 2, 3>>

\* frames whose opcode decode_frame does not route
UnknownFrames == {<<5, 1, 2, 3>>, <<255>>}

\* the minimum length of each type that has one
MinLen ==
    (8 :> 8) @@ (7 :> 13) @@ (16 :> 16) @@ (17 :> 11) @@ (128 :> 33)
        @@ (3 :> 100) @@ (130 :> 9) @@ (132 :> 4)

\* a frame cut one byte short of its type's minimum
Short(frame) == SubSeq(frame, 1, MinLen[frame[1]] - 1)

ShortFrames ==
    {Short(MsgA(3, TEXT_ALICE)), Short(MsgB(KEY_A, TEXT_PLAIN)),
     Short(MsgC(KEY_A, TEXT_PLAIN)), Short(MsgD(3, TEXT_ALICE)),
     Short(Advert(KEY_A)), Short(CONTACT_A), Short(ACK_FRAME),
     Short(RAW_FRAME)}

GFrames ==
    UnknownFrames \cup ShortFrames \cup
    {MsgD(12, TEXT_ALICE), MsgD(12, TEXT_PLAIN), MsgD(12, TEXT_TWICE),
     MsgA(3, TEXT_PLAIN), MsgA(3, TEXT_TWICE),
     MsgB(KEY_A, TEXT_PLAIN), MsgB(KEY_X, TEXT_PLAIN),
     MsgC(KEY_A, TEXT_PLAIN), MsgC(KEY_X, TEXT_PLAIN),
     Advert(KEY_A), Advert(KEY_X),
     CONTACT_A, CONTACT_B, END_CONTACTS,
     ACK_FRAME, RAW_FRAME, MESH_FRAME, TRACE_EXAMPLE}

InitG ==
    /\ pc = "read"
    /\ wire = <<>>
    /\ input = <<>>
    /\ InitSession
    /\ InitDecoder

\* the node sends a frame, when the one before it has been read
G_Send ==
    /\ pc = "read"
    /\ wire = <<>>
    /\ Len(input) < MaxGFrames
    /\ \E f \in GFrames :
         /\ wire' = Append(wire, InFrame(f))
         /\ input' = Append(input, f)
    /\ UNCHANGED <<buffer, connVars, pc, cur, tasks, decoderVars, events, rx,
                   delivered, dropped>>

NextG == G_Send \/ Loop_Read \/ PB_Slice \/ PB_Callback \/ PB_Return

SpecG == InitG /\ [][NextG]_vars

(***************************************************************************)
(* Properties of the frame types (SpecG)                                   *)
(***************************************************************************)
\* the opcodes decode_frame has a branch for
DecodedOpcodes == {3, 4, 7, 8, 16, 17, 128, 130, 131, 132, 136, 137}

\* every frame the node sent has gone through the frame callback, in order
AllDecoded == (pc = "read" /\ wire = <<>>) => delivered = input

\* the callback is about to decode a frame of an opcode that is not decoded
UnknownStep == pc = "cb" /\ cur[1] # <<>> /\ cur[1][1] \notin DecodedOpcodes

\* C11: a frame whose opcode is not one of the decoded opcodes produces no
\* event and no error: the sink is not called, the directory, the loading
\* flag and the pending list are unchanged, process_buffer goes on with the
\* session connected, and the frames after it are decoded.
C11_UnknownOpcode ==
    /\ [][UnknownStep =>
            /\ events' = events
            /\ contacts' = contacts
            /\ initial_contact_loading' = initial_contact_loading
            /\ initial_contacts' = initial_contacts
            /\ pc' = "pb"
            /\ connected' /\ running']_vars
    /\ []AllDecoded

\* an unknown frame, then a channel message that reached the sink
C11_Witness ==
    /\ pc = "read"
    /\ delivered = <<<<5, 1, 2, 3>>, MsgD(12, TEXT_ALICE)>>
    /\ Len(events) = 1
    /\ events[1].src = 2
    /\ events[1].ev.type = "channel_message"
    /\ stats.frames = 2

\* the callback is about to decode a frame shorter than its type's minimum
ShortStep ==
    /\ pc = "cb"
    /\ cur[1] # <<>>
    /\ cur[1][1] \in DOMAIN MinLen
    /\ Len(cur[1]) < MinLen[cur[1][1]]

\* C12: a frame shorter than the minimum length of its type (0x08: 8,
\* 0x07: 13, 0x10: 16, 0x11: 11, 0x80: 33, 0x03: 100, 0x82: 9, 0x84: 4) gives
\* no event and raises nothing: the directory, the loading flag, the pending
\* list and the messages and adverts counters are unchanged, process_buffer
\* goes on with the session connected, and later frames are decoded.
C12_TooShort ==
    /\ [][ShortStep =>
            /\ events' = events
            /\ contacts' = contacts
            /\ initial_contact_loading' = initial_contact_loading
            /\ initial_contacts' = initial_contacts
            /\ stats'.messages = stats.messages
            /\ stats'.adverts = stats.adverts
            /\ pc' = "pb"
            /\ connected' /\ running']_vars
    /\ [](\A k \in DOMAIN delivered : delivered[k] = input[k])
    /\ []((pc = "read" /\ wire = <<>>) => Len(delivered) = Len(input))

\* a contact frame of 99 bytes, then the same contact whole
C12_Witness ==
    /\ pc = "read"
    /\ delivered = <<Short(CONTACT_A), CONTACT_A>>
    /\ DOMAIN contacts = {KeyPrefix(Hex(KEY_A))}
    /\ Len(initial_contacts) = 1
    /\ events = <<>>

\* the text of a channel message frame: its bytes from 11 (0x11) or 8 (0x08),
\* decoded
ChannelText(frame) ==
    Utf8Ignore(SubSeq(frame, IF frame[1] = 17 THEN 12 ELSE 9, Len(frame)))

\* C16: in a channel message of sufficient length the text is split at the
\* first ': ' only: sender is the text before it and message all that follows
\* it; without ': ' message is the whole text and sender is 'Channel #' and
\* the channel byte in decimal (0x11) or 'Unknown' (0x08).  'Alice: hello'
\* gives sender 'Alice' and message 'hello'; 'no-colon-here' on channel 12
\* gives sender 'Channel #12'.
C16_SplitFirst ==
    \A i \in DOMAIN events :
       LET e == events[i].ev
       IN  e.type = "channel_message" =>
             LET text == ChannelText(e.raw_frame)
                 sender == e.data.sender
                 message == e.data.message
             IN  /\ IF \E k \in 1..(Len(text) - 1) : text[k] = 58 /\ text[k + 1] = 32
                    THEN /\ sender \o <<58, 32>> \o message = text
                         /\ \A k \in 1..Len(sender) :
                               ~((sender \o <<58>>)[k] = 58
                                   /\ (sender \o <<58, 32>>)[k + 1] = 32)
                    ELSE /\ message = text
                         /\ e.raw_frame[1] = 8 =>
                               sender = <<85, 110, 107, 110, 111, 119, 110>>
                         /\ e.raw_frame[1] = 17 =>
                               /\ SubSeq(sender, 1, 9)
                                     = <<67, 104, 97, 110, 110, 101, 108, 32, 35>>
                               /\ SubSeq(sender, 10, Len(sender))
                                     = Digits(e.raw_frame[5])
                 /\ e.raw_frame = MsgD(12, TEXT_ALICE) =>
                       /\ sender = <<65, 108, 105, 99, 101>>
                       /\ message = <<104, 101, 108, 108, 111>>
                 /\ e.raw_frame = MsgD(12, TEXT_PLAIN) =>
                       /\ sender = <<67, 104, 97, 110, 110, 101, 108, 32, 35, 49, 50>>
                       /\ message = TEXT_PLAIN
                 /\ e.raw_frame = MsgD(12, TEXT_TWICE) =>
                       /\ sender = <<97>>
                       /\ message = <<98, 58, 32, 99>>

\* 'a: b: c' on a public channel and 'no-colon-here' in the legacy format
C16_Witness ==
    /\ pc = "read"
    /\ delivered = <<MsgD(12, TEXT_TWICE), MsgA(3, TEXT_PLAIN)>>
    /\ Len(events) = 2
    /\ events[1].ev.data.message = <<98, 58, 32, 99>>
    /\ events[2].ev.data.sender = UNKNOWN

\* the callback is about to decode a direct message or an advertisement of
\* sufficient length
LookupStep ==
    /\ pc = "cb"
    /\ cur[1] # <<>>
    /\ cur[1][1] \in {7, 16, 128}
    /\ Len(cur[1]) >= MinLen[cur[1][1]]

\* the key such a frame carries, in hex
LookupKey(frame) ==
    CASE frame[1] = 7 -> Hex(SubSeq(frame, 2, 7))
      [] frame[1] = 16 -> Hex(SubSeq(frame, 5, 10))
      [] frame[1] = 128 -> Hex(SubSeq(frame, 2, 33))

\* the name an event carries
NameOf(ev) == IF ev.type = "advertisement" THEN ev.data.name ELSE ev.data.sender

\* the same direct message or advertisement decoded twice, with no contact
\* frame decoded in between, names the same sender
SameNameTwice ==
    \A i, j \in DOMAIN events :
       (/\ i < j
        /\ events[i].ev.type \in {"direct_message", "advertisement"}
        /\ events[j].ev.type = events[i].ev.type
        /\ events[j].ev.raw_frame = events[i].ev.raw_frame
        /\ \A k \in (events[i].src + 1)..(events[j].src - 1) :
              ~(delivered[k][1] = 3 /\ Len(delivered[k]) >= 100))
       => NameOf(events[j].ev) = NameOf(events[i].ev)

\* C17 as stated: the lookups made for 0x07, 0x10 and 0x80 frames use the
\* 12-character prefix of the key, never raise and never modify the
\* directory; a hit yields the stored name, a miss the truncated hex of the
\* key (the name begins with hex characters of the key).
C17_LookupHexFallback ==
    /\ [][LookupStep =>
            LET key == LookupKey(cur[1])
                k == SubSeq(key, 1, 12)
                name == NameOf(events'[Len(events')].ev)
            IN  /\ contacts' = contacts
                /\ OneMore(events, events')
                /\ pc' = "pb"
                /\ IF k \in DOMAIN contacts THEN name = contacts[k]
                   ELSE \E n \in 1..Min(Len(key), Len(name)) :
                           SubSeq(name, 1, n) = HexChars(SubSeq(key, 1, n))]_vars
    /\ []SameNameTwice

\* C17, amended: as above, but a miss yields the first 8 hex characters of
\* the key followed by '...' for a direct message (0x07, 0x10) and the name
\* 'Unknown' for an advertisement (0x80).
C17_Lookup ==
    /\ [][LookupStep =>
            LET key == LookupKey(cur[1])
                k == SubSeq(key, 1, 12)
                name == NameOf(events'[Len(events')].ev)
            IN  /\ contacts' = contacts
                /\ OneMore(events, events')
                /\ pc' = "pb"
                /\ IF k \in DOMAIN contacts THEN name = contacts[k]
                   ELSE IF cur[1][1] = 128
                   THEN name = <<85, 110, 107, 110, 111, 119, 110>>
                   ELSE name = HexChars(SubSeq(key, 1, 8)) \o <<46, 46, 46>>]_vars
    /\ []SameNameTwice

\* an advertisement of a key the directory holds, under the stored name
C17_Witness ==
    /\ pc = "read"
    /\ delivered = <<CONTACT_A, Advert(KEY_A)>>
    /\ Len(events) = 1
    /\ events[1].ev.data.name = <<65, 66>>

SinkRaised == events' # events /\ events'[Len(events')].raised

\* C19: an exception of the sink does not leave the decode call and does not
\* undo the decoder's state change: process_buffer goes on with the session
\* connected; after a raise on the contact summary the decoder is no longer
\* loading and its pending list is empty; after a raise on any other event
\* the directory and the counters hold the updates made for the frame.
C19_SinkRaises ==
    [][SinkRaised =>
         LET e == events'[Len(events')].ev
         IN  /\ pc = "cb" /\ pc' = "pb"
             /\ connected' /\ running'
             /\ delivered' = Append(delivered, cur[1])
             /\ stats'.frames = stats.frames + 1
             /\ e.type = "contact_summary" =>
                   /\ initial_contact_loading
                   /\ ~initial_contact_loading'
                   /\ initial_contacts' = <<>>
             /\ e.type = "contact" =>
                   /\ SubSeq(e.data.pubkey, 1, 12) \in DOMAIN contacts'
                   /\ contacts'[SubSeq(e.data.pubkey, 1, 12)] = e.data.name
             /\ e.type \in {"channel_message", "direct_message"} =>
                   stats'.messages = stats.messages + 1
             /\ e.type = "advertisement" => stats'.adverts = stats.adverts + 1
             /\ e.type = "mesh_packet" =>
                   stats'.mesh_packets = stats.mesh_packets + 1]_vars

\* the sink raised on the summary of one contact
C19_Witness ==
    /\ pc = "read"
    /\ delivered = <<CONTACT_A, END_CONTACTS>>
    /\ Len(events) = 1
    /\ events[1].raised
    /\ events[1].ev.type = "contact_summary"
    /\ ~initial_contact_loading
    /\ initial_contacts = <<>>

(***************************************************************************)
(* A frame callback that raises (SpecC).  process_buffer takes any         *)
(* callable as frame_callback and guards its call with try/except; the     *)
(* decoder this program installs raises on no frame, so here the callback  *)
(* may also raise, before it changes anything or after it has decoded.     *)
(* The node sends chunks of two frames; input.sent is the frames sent and  *)
(* input.failed the positions in delivered at which the callback raised.   *)
(***************************************************************************)
MaxCChunks == 1

CFrames == {CONTACT_A, END_CONTACTS, ACK_FRAME, MsgD(12, TEXT_ALICE)}

InitC ==
    /\ pc = "read"
    /\ wire = <<>>
    /\ input = [sent |-> <<>>, failed |-> <<>>]
    /\ InitSession
    /\ InitDecoder

\* the node sends two frames in one piece
C_Send ==
    /\ pc = "read"
    /\ wire = <<>>
    /\ Len(input.sent) < 2 * MaxCChunks
    /\ \E f \in CFrames, g \in CFrames :
         /\ wire' = <<InFrame(f) \o InFrame(g)>>
         /\ input' = [input EXCEPT !.sent = @ \o <<f, g>>]
    /\ UNCHANGED <<buffer, connVars, pc, cur, tasks, decoderVars, events, rx,
                   delivered, dropped>>

RaiseToReadLoop(run, conn) == [pc |-> "errsleep", connected |-> FALSE]
\* except Exception as e: logger.error(...): the while loop of process_buffer
\* goes on, and the session is what it was
CatchCallback(run, conn) == [pc |-> "pb", connected |-> conn]

\* self.frame_callback(frame) raises, and process_buffer catches it
PB_CallbackRaises ==
    /\ pc = "cb"
    /\ \E decoded \in BOOLEAN :
         LET r == IF decoded THEN decode_frame(Decoder, cur[1])
                  ELSE [d |-> Decoder, event |-> <<>>]
         IN  /\ contacts' = r.d.contacts
             /\ initial_contact_loading' = r.d.initial_contact_loading
             /\ initial_contacts' = r.d.initial_contacts
             /\ stats' = r.d.stats
             /\ events' = IF r.event = <<>> THEN events
                          ELSE handle_event(events,
                                            [ev |-> r.event[1],
                                             src |-> Len(delivered) + 1,
                                             raised |-> FALSE])
    /\ delivered' = Append(delivered, cur[1])
    /\ input' = [input EXCEPT !.failed = Append(@, Len(delivered) + 1)]
    /\ cur' = <<>>
    /\ pc' = CatchCallback(running, connected).pc
    /\ connected' = CatchCallback(running, connected).connected
    /\ UNCHANGED <<running, writer, link, out, hs, conns, syncs, sent, stopped,
                   auto_reconnect, buffer, tasks, wire, rx, dropped>>

NextC ==
    \/ C_Send \/ Loop_Read
    \/ PB_Slice \/ PB_Callback \/ PB_CallbackRaises \/ PB_Return

SpecC == InitC /\ [][NextC]_vars

\* C20: an exception raised while one frame is decoded is confined to that
\* frame: its bytes have left the buffer, the exception does not leave
\* process_buffer, which goes on with the rest of the buffer, the frames that
\* follow in the chunk are sliced and decoded in order, and the read loop
\* comes back to its read with the session connected.
C20_RaiseConfined ==
    /\ [][input'.failed # input.failed =>
            /\ pc = "cb" /\ pc' = "pb"
            /\ rx = InStream(delivered) \o InFrame(cur[1]) \o buffer
            /\ buffer' = buffer
            /\ connected' /\ running']_vars
    /\ [](/\ pc \in {"read", "pb", "cb"}
          /\ connected /\ running
          /\ Len(delivered) <= Len(input.sent)
          /\ \A k \in DOMAIN delivered : delivered[k] = input.sent[k])
    /\ []((pc = "read" /\ wire = <<>>) => Len(delivered) = Len(input.sent))

\* the callback raised on the first frame of a chunk, and the second frame
\* of the chunk reached the sink
C20_Witness ==
    /\ pc = "read"
    /\ connected
    /\ input.failed = <<1>>
    /\ delivered = <<CONTACT_A, MsgD(12, TEXT_ALICE)>>
    /\ Len(rx) = Len(InFrame(CONTACT_A)) + Len(InFrame(MsgD(12, TEXT_ALICE)))
    /\ Len(events) = 1
    /\ events[1].src = 2

(***************************************************************************)
(* Session properties (Spec)                                               *)
(***************************************************************************)
\* C23: with auto_reconnect off, once the session is marked disconnected the
\* read loop ends at its next iteration: it opens no connection, sends no
\* handshake request and starts no read again; the session stays
\* disconnected and the loop is in the read it was awaiting, in
\* process_buffer, in the sleep of its except branch, or has ended.
C23_NoReconnect ==
    /\ [][(~auto_reconnect /\ ~connected /\ LoopStarted) =>
            /\ ~connected'
            /\ conns' = conns
            /\ hs' = hs
            /\ out' = out
            /\ pc' = "read" => pc = "read"
            /\ (pc \in {"read", "pb", "errsleep"} /\ pc' \notin {"read", "pb", "cb", "errsleep"})
                  => pc' = "done"
            /\ pc = "done" => pc' = "done"]_vars
    /\ [][(~auto_reconnect /\ ~connected /\ pc = "init0" /\ pc' # "init0") =>
            pc' = "done"]_vars
    /\ []((~auto_reconnect /\ ~connected /\ LoopStarted) =>
            pc \in {"read", "pb", "cb", "errsleep", "done"})

\* the node closed the connection and the loop, still running, has ended
C23_Witness ==
    /\ ~auto_reconnect
    /\ pc = "done"
    /\ running
    /\ ~connected
    /\ link = "eof"
    /\ conns = 1
    /\ hs = Len(Handshake)

\* the bytes of the i-th request of initialize: 22 [5], 1 [1 0 0 0 0 0 0
\* 'Discord Bridge'], 4, and 10 five times
WireRequest(i) ==
    CASE i = 1 -> <<60, 2, 0, 22, 5>>
      [] i = 2 -> <<60, 22, 0, 1, 1, 0, 0, 0, 0, 0, 0, 68, 105, 115, 99, 111,
                    114, 100, 32, 66, 114, 105, 100, 103, 101>>
      [] i = 3 -> <<60, 1, 0, 4>>
      [] OTHER -> <<60, 1, 0, 10>>

\* s is a concatenation of whole requests
RECURSIVE WholeFrames(_)
WholeFrames(s) ==
    \/ s = <<>>
    \/ /\ Len(s) >= 4
       /\ s[1] = 60
       /\ LET n == s[2] + 256 * s[3]
          IN  /\ n >= 1
              /\ Len(s) >= 3 + n
              /\ \E i \in 1..4 : SubSeq(s, 1, 3 + n) = WireRequest(i)
              /\ WholeFrames(SubSeq(s, 4 + n, Len(s)))

\* C24: whatever the interleaving of initialize, periodic_sync and the tasks
\* created for message-waiting frames, the bytes written to one connection
\* are a concatenation of whole outbound frames, and each write adds one
\* whole frame at the end.
C24_WholeFrames ==
    [][out' # out =>
         /\ WholeFrames(out')
         /\ out' # <<>> => \E i \in 1..4 : out' = out \o WireRequest(i)]_vars

\* during the handshake of a reconnect another task wrote its request
\* between the first two requests of initialize
C24_Witness ==
    /\ pc = "init"
    /\ connected
    /\ hs = 2
    /\ out = WireRequest(1) \o WireRequest(4) \o WireRequest(2)

\* C25: each successful connect issues the requests of initialize in order,
\* one at a time: 22 with payload [5], 1, 4, then 10 five times, each written
\* whole when the session is still connected; connect returns, and the loop
\* goes on, only after all eight, and nothing is read from the connection
\* before that.
C25_HandshakeOrder ==
    /\ [][(hs' # hs /\ hs' # 0) =>
            /\ pc \in {"init0", "init"}
            /\ pc' = pc
            /\ IF connected /\ connected'
               THEN /\ hs' = hs + 1
                    /\ out' = out \o WireRequest(hs')
               ELSE /\ hs' = 8
                    /\ out' = out]_vars
    /\ [][(pc \in {"init0", "init"}) =>
            /\ rx' = rx
            /\ buffer' = buffer
            /\ pc' # pc => (hs = 8 /\ pc' \in {"read", "delay", "done"})]_vars
    /\ [][(conns' # conns) => (hs' = 0 /\ out' = <<>> /\ pc' \in {"init0", "init"})]_vars

\* the loop reads again on its second connection, whose output is the eight
\* requests
C25_Witness ==
    /\ pc = "read"
    /\ conns = 2
    /\ connected
    /\ hs = 8
    /\ out = WireRequest(1) \o WireRequest(2) \o WireRequest(3)
                \o WireRequest(4) \o WireRequest(5) \o WireRequest(6)
                \o WireRequest(7) \o WireRequest(8)

\* C28: nothing is written while the session is marked disconnected: a
\* send_frame of the handshake or of a message-waiting task that finds
\* connected False writes nothing and changes nothing, bytes are added to
\* the output only on a connected session, and periodic_sync issues its
\* request only when connected is True.
C28_NoWriteDisconnected ==
    [][/\ out' # out =>
            \/ conns' = conns + 1 /\ out' = <<>>
            \/ /\ connected /\ writer
               /\ Len(out') > Len(out)
               /\ SubSeq(out', 1, Len(out)) = out
       /\ (~connected /\ (tasks' < tasks \/ (hs' # hs /\ hs' # 0))) =>
            /\ out' = out
            /\ UNCHANGED <<connected, running, writer, link, buffer, pc>>
       /\ syncs' # syncs => connected]_vars

\* the node announced a message and closed; the task created for it ran
\* after the loop had marked the session disconnected, and wrote nothing
C28_Witness ==
    /\ ~connected
    /\ link = "eof"
    /\ conns = 1
    /\ tasks = 0
    /\ syncs = 0
    /\ \E k \in DOMAIN delivered : delivered[k] = MSG_WAITING_FRAME
    /\ out = WireRequest(1) \o WireRequest(2) \o WireRequest(3)
                \o WireRequest(4) \o WireRequest(5) \o WireRequest(6)
                \o WireRequest(7) \o WireRequest(8)

(***************************************************************************)
(* process_buffer runs to the end of the complete frames (SpecT)           *)
(***************************************************************************)
\* buf holds no complete frame at its head and no byte to discard
Incomplete(buf) ==
    \/ Len(buf) < 3
    \/ buf[1] = 62 /\ Len(buf) < 3 + (buf[2] + 256 * buf[3])

\* C26: every complete frame in the buffer is extracted and decoded before
\* the next read: when process_buffer returns, and so whenever the loop
\* reads, fewer than 3 bytes remain or the buffer starts with 0x3E and holds
\* fewer than 3 + L bytes; one frame at most is in the callback, and the next
\* is sliced only when that callback has returned.
C26_RunsToCompletion ==
    /\ [](pc = "read" => Incomplete(buffer))
    /\ [][(pc = "pb" /\ pc' \notin {"pb", "cb"}) =>
            /\ Incomplete(buffer)
            /\ buffer' = buffer
            /\ Len(delivered) = Len(process_buffer(rx).frames)]_vars
    /\ [](Len(cur) <= 1 /\ (cur # <<>> <=> pc = "cb"))
    /\ [][(cur' # cur /\ cur' # <<>>) => (cur = <<>> /\ pc = "pb")]_vars
    /\ [][Len(delivered') <= Len(delivered) + 1]_vars

\* a frame was decoded and the head of the next waits for its last byte
C26_Witness ==
    /\ pc = "read"
    /\ Len(delivered) = 1
    /\ Len(buffer) >= 3
    /\ buffer[1] = 62
    /\ Len(buffer) = 2 + (buffer[2] + 256 * buffer[3])
    /\ Len(wire) = 1

(***************************************************************************)
(* The counters (SpecG)                                                    *)
(***************************************************************************)
\* C27: the counters are only added to: over frames of every kind, those
\* too short, of unknown opcode or on whose event the sink raises included,
\* each of frames, messages, mesh_packets and adverts never decreases and
\* grows by at most 1 per frame, and only in the callback of a frame.
C27_CountersAdditive ==
    /\ [][/\ \A c \in {"frames", "messages", "mesh_packets", "adverts"} :
               stats'[c] \in {stats[c], stats[c] + 1}
          /\ stats' # stats =>
               /\ pc = "cb"
               /\ Len(delivered') = Len(delivered) + 1]_vars
    /\ [](DOMAIN stats = {"frames", "messages", "mesh_packets", "adverts"})
    /\ [](stats.frames = Len(delivered))

\* a message on whose event the sink raised, then a mesh packet
C27_Witness ==
    /\ pc = "read"
    /\ delivered = <<MsgA(3, TEXT_PLAIN), MESH_FRAME>>
    /\ events[1].raised
    /\ stats = [frames |-> 2, messages |-> 1, mesh_packets |-> 1, adverts |-> 0]

(***************************************************************************)
(* Mesh packets (SpecM): one connected session whose node sends one mesh   *)
(* packet frame, of any length from the opcode alone to more than 100      *)
(* bytes after it.                                                         *)
(***************************************************************************)
MaxMeshLen == 102

\* a mesh packet of n bytes after the opcode: zeros, or counting bytes with
\* a NUL before the last five
MeshFrame(n, counting) ==
    <<136>> \o [i \in 1..n |-> IF ~counting THEN 0
                               ELSE IF i = n - 5 THEN 0
                               ELSE 65 + (i % 26)]

InitM ==
    /\ \E n \in 0..MaxMeshLen, counting \in BOOLEAN :
         /\ input = [frame |-> MeshFrame(n, counting)]
         /\ wire = <<InFrame(MeshFrame(n, counting))>>
    /\ pc = "read"
    /\ InitSession
    /\ InitDecoder

SpecM == InitM /\ [][NextR]_vars

\* the mesh packet decoded has n bytes after its opcode
MeshLen == Len(delivered[1]) - 1

\* C29 as stated: every mesh packet frame of 1 byte or more gives exactly
\* one MESH_PACKET event and adds 1 to the mesh packet counter, and with n
\* the bytes after the opcode its subtype is ADVERTISEMENT when n > 100,
\* BEACON when n < 20 and DATA otherwise.
C29_MeshSubtypeAlways ==
    delivered # <<>> =>
        /\ Len(events) = 1
        /\ events[1].ev.type = "mesh_packet"
        /\ events[1].ev.raw_frame = delivered[1]
        /\ stats.mesh_packets = 1
        /\ "subtype" \in DOMAIN events[1].ev.data
        /\ events[1].ev.data.subtype =
              IF MeshLen > 100 THEN "ADVERTISEMENT"
              ELSE IF MeshLen < 20 THEN "BEACON" ELSE "DATA"

\* C29, amended: every mesh packet frame of 1 byte or more gives exactly one
\* MESH_PACKET event and adds 1 to the mesh packet counter; with n >= 2 bytes
\* after the opcode its subtype is ADVERTISEMENT when n > 100, BEACON when
\* n < 20 and DATA otherwise; with n < 2 the event holds the length and the
\* hex of the packet only, and no subtype.
C29_MeshPacket ==
    delivered # <<>> =>
        /\ Len(events) = 1
        /\ events[1].ev.type = "mesh_packet"
        /\ events[1].ev.raw_frame = delivered[1]
        /\ stats.mesh_packets = 1
        /\ events[1].ev.data.length = MeshLen
        /\ IF MeshLen < 2
           THEN DOMAIN events[1].ev.data = {"length", "hex"}
           ELSE /\ "subtype" \in DOMAIN events[1].ev.data
                /\ events[1].ev.data.subtype =
                      IF MeshLen > 100 THEN "ADVERTISEMENT"
                      ELSE IF MeshLen < 20 THEN "BEACON" ELSE "DATA"

\* a packet of exactly 100 bytes is DATA
C29_Witness ==
    /\ pc = "read"
    /\ delivered # <<>>
    /\ MeshLen = 100
    /\ Len(events) = 1
    /\ events[1].ev.data.subtype = "DATA"

(***************************************************************************)
(* Contact frames (SpecK): one connected session whose node sends contact  *)
(* frames of several node types, lengths, names and keys, and the end of   *)
(* the contact list.                                                       *)
(***************************************************************************)
MaxKFrames == 2

\* 'AB', 'CD'
NAME_AB == <<65, 66>>
NAME_CD == <<67, 68>>

\* a contact frame cut to len bytes: the key at 1..6, the node type at 33,
\* the name at 100..131, two more bytes after it
KFrame(key, node_type, name, len) ==
    SubSeq(<<3>> \o key \o Zeros(26) \o <<node_type>> \o Zeros(66)
              \o name \o Zeros(32 - Len(name)) \o <<90, 90>>, 1, len)

KFrames ==
    {KFrame(KEY_A, t, NAME_AB, 132) : t \in {0, 1, 2, 3, 7}}
        \cup {KFrame(KEY_A, 1, NAME_CD, len) : len \in {100, 131, 132, 134}}
        \cup {KFrame(KEY_X, 2, NAME_AB, 132), END_CONTACTS}

InitK ==
    /\ pc = "read"
    /\ wire = <<>>
    /\ input = <<>>
    /\ InitSession
    /\ InitDecoder

\* the node sends a frame, when the one before it has been read
K_Send ==
    /\ pc = "read"
    /\ wire = <<>>
    /\ Len(input) < MaxKFrames
    /\ \E f \in KFrames :
         /\ wire' = Append(wire, InFrame(f))
         /\ input' = Append(input, f)
    /\ UNCHANGED <<buffer, connVars, pc, cur, tasks, decoderVars, events, rx,
                   delivered, dropped>>

NextK == K_Send \/ Loop_Read \/ PB_Slice \/ PB_Callback \/ PB_Return

SpecK == InitK /\ [][NextK]_vars

\* the name in bytes 100..131 of a contact frame of ASCII text: what is left
\* of them without the NULs at their end; empty below 132 bytes
NameField(frame, name) ==
    IF Len(frame) < 132 THEN name = <<>>
    ELSE /\ Len(name) <= 32
         /\ SubSeq(frame, 101, 132) = name \o [i \in 1..(32 - Len(name)) |-> 0]
         /\ name # <<>> => name[Len(name)] # 0

\* the text of a node type, as <<'CHAT'>> or <<'TYPE_', n>>
TypeField(n) ==
    IF n = 1 THEN <<"CHAT">>
    ELSE IF n = 2 THEN <<"REPEATER">>
    ELSE IF n = 3 THEN <<"ROOM">>
    ELSE <<"TYPE_", n>>

\* C30: for a contact frame of 100 bytes or more the node type byte at 33
\* maps 1 to CHAT, 2 to REPEATER, 3 to ROOM and any other n to TYPE_n, and the
\* directory entry of the first 6 key bytes is set to the name in bytes
\* 100..131, the empty name when the frame has fewer than 132 bytes,
\* whatever name the entry held; no other entry changes.
C30_ContactFields ==
    [][ContactStep =>
         LET f == cur[1]
             k == Hex(SubSeq(f, 2, 7))
         IN  /\ DOMAIN contacts' = DOMAIN contacts \cup {k}
             /\ \A o \in DOMAIN contacts : o # k => contacts'[o] = contacts[o]
             /\ NameField(f, contacts'[k])
             /\ IF initial_contact_loading
                THEN /\ Len(initial_contacts') = Len(initial_contacts) + 1
                     /\ initial_contacts'[Len(initial_contacts')].type = TypeField(f[34])
                     /\ initial_contacts'[Len(initial_contacts')].name = contacts'[k]
                     /\ events' = events
                ELSE /\ Len(events') = Len(events) + 1
                     /\ events'[Len(events')].ev.data.node_type = TypeField(f[34])
                     /\ events'[Len(events')].ev.data.name = contacts'[k]]_vars

\* the name 'CD' of a key overwritten by the empty name of a frame of 131
\* bytes
C30_Witness ==
    /\ pc = "read"
    /\ delivered = <<KFrame(KEY_A, 1, NAME_CD, 134), KFrame(KEY_A, 1, NAME_CD, 131)>>
    /\ contacts[Hex(KEY_A)] = <<>>
    /\ initial_contacts[1].name = NAME_CD
    /\ initial_contacts[2].type = <<"CHAT">>

(***************************************************************************)
(* The buffer across a reconnect (SpecB): a connected session with         *)
(* auto-reconnect whose node sends whole frames and the head of a frame,   *)
(* and whose connection is lost and opened again.  input holds the number  *)
(* of bytes that had been received when the connection was last opened.    *)
(***************************************************************************)
MaxBSegments == 2

\* the head of a frame of 2 bytes: the marker, the length and the first byte
PARTIAL == <<62, 2, 0, 9>>

BSegments == {PARTIAL, InFrame(END_CONTACTS), InFrame(MSG_WAITING_FRAME)}

InitB ==
    /\ pc = "read"
    /\ wire = <<>>
    /\ input = <<0>>
    /\ InitSession
    /\ InitDecoder

\* the node sends a segment on the connection that is open
B_Send ==
    /\ pc = "read"
    /\ link = "up"
    /\ sent < MaxBSegments
    /\ \E seg \in BSegments : wire' = Append(wire, seg)
    /\ sent' = sent + 1
    /\ UNCHANGED <<buffer, connected, running, writer, link, out, hs, conns,
                   syncs, stopped, auto_reconnect, pc, cur, tasks,
                   decoderVars, events, rx, delivered, dropped, input>>

\* read_loop: connect(), as Loop_Open; self.buffer is not assigned in
\* connect() nor in the loop around it
B_Open ==
    /\ pc = "open"
    /\ \/ Opened("init") /\ input' = <<Len(rx)>>
       \/ /\ connected' = FALSE
          /\ pc' = "read"
          /\ UNCHANGED <<link, wire, out, writer, conns, hs, input>>
    /\ UNCHANGED <<buffer, running, cur, tasks, syncs, sent, stopped,
                   auto_reconnect, decoderVars, events, rx, delivered,
                   dropped>>

NextB ==
    \/ B_Send \/ NodeClose \/ NodeReset
    \/ Loop_Read \/ Loop_ReadEOF \/ Loop_ReadError \/ Loop_Continue
    \/ Loop_Delay \/ B_Open \/ Init_Send \/ Loop_Connected
    \/ PB_Discard \/ PB_Slice \/ PB_Callback \/ PB_Return
    \/ SendTask

SpecB == InitB /\ [][NextB]_vars

\* the buffer is what is left of the bytes received: the position in rx of
\* the first byte of the frame in the callback, its 3-byte header included
FrameStart == Len(rx) - Len(buffer) - Len(cur[1]) - 3

\* C22: the inbound buffer is discarded on reconnect: the buffer is empty
\* when a new connection has been opened, and every frame handed to the
\* decoder after a reconnect is made only of bytes received on the new
\* connection.
C22_BufferDiscarded ==
    /\ (pc = "init" /\ hs = 0) => buffer = <<>>
    /\ pc = "cb" => FrameStart >= input[1]

\* the frame 09 3E handed to the decoder: 09 from the connection that was
\* lost, 3E from the new one
C22_Mixed ==
    /\ pc = "cb"
    /\ conns = 2
    /\ cur[1] = <<9, 62>>
    /\ FrameStart < input[1]

(***************************************************************************)
(* Reconnecting (SpecL): a connected session with auto-reconnect whose     *)
(* connection is lost, whose node refuses or accepts new connections       *)
(* (input), which periodic_sync writes to, and which stop() may end.  The   *)
(* sleeps, the reads and open_connection of the loop all end, which is the *)
(* fairness of the specification.                                          *)
(***************************************************************************)
InitL ==
    /\ pc = "read"
    /\ wire = <<>>
    /\ input \in {"refuse", "accept"}
    /\ InitSession
    /\ InitDecoder

\* the node starts to accept connections
L_PeerUp ==
    /\ input = "refuse"
    /\ input' = "accept"
    /\ UNCHANGED <<buffer, connVars, pc, cur, tasks, wire, decoderVars,
                   events, rx, delivered, dropped>>

\* read_loop: connect(); open_connection succeeds when the node accepts
\* connections and raises when it refuses them
L_Open ==
    /\ pc = "open"
    /\ IF input = "accept"
       THEN Opened("init")
       ELSE /\ connected' = FALSE
            /\ pc' = "read"
            /\ UNCHANGED <<link, wire, out, writer, conns, hs>>
    /\ UNCHANGED <<buffer, running, cur, tasks, syncs, sent, stopped,
                   auto_reconnect, decoderVars, events, rx, delivered,
                   dropped, input>>

\* the connection is lost, closed by the node or broken
L_Close == conns < MaxConns /\ NodeClose

L_Reset == conns < MaxConns /\ NodeReset

NextL ==
    \/ L_PeerUp \/ L_Close \/ L_Reset \/ Disconnect \/ PeriodicSync
    \/ Loop_ReadEOF \/ Loop_ReadError \/ Loop_Continue
    \/ Loop_Delay \/ L_Open \/ Init_Send \/ Loop_Connected

SpecL ==
    /\ InitL
    /\ [][NextL]_vars
    /\ WF_vars(Loop_ReadEOF)
    /\ WF_vars(Loop_ReadError)
    /\ WF_vars(Loop_Continue)
    /\ WF_vars(Loop_Delay)
    /\ WF_vars(L_Open)
    /\ WF_vars(Init_Send)
    /\ WF_vars(Loop_Connected)

\* the eight requests of initialize, as written one after the other
FullHandshake ==
    WireRequest(1) \o WireRequest(2) \o WireRequest(3) \o WireRequest(4)
        \o WireRequest(4) \o WireRequest(4) \o WireRequest(4) \o WireRequest(4)

\* the requests ws are in the bytes s in their order, with nothing but
\* requests 10 before and between them
RECURSIVE InOrder(_, _)
InOrder(s, ws) ==
    \/ ws = <<>>
    \/ /\ Len(s) >= 4
       /\ LET n == 3 + s[2] + 256 * s[3]
          IN  /\ Len(s) >= n
              /\ IF SubSeq(s, 1, n) = ws[1]
                 THEN InOrder(SubSeq(s, n + 1, Len(s)), Tail(ws))
                 ELSE /\ SubSeq(s, 1, n) = WireRequest(4)
                      /\ InOrder(SubSeq(s, n + 1, Len(s)), ws)

\* C21: with auto-reconnect, a running loop that finds the session
\* disconnected goes to the reconnect delay and not to its end; after the
\* delay it opens a connection; when that succeeds the loop reads again only
\* after initialize, and with the session still connected only after all
\* eight requests were written to the new connection, in their order; when
\* it fails the loop comes back to the delay; so once the node accepts
\* connections a running loop in its delay gets a new connection, and reads
\* from it.
C21_Reconnects ==
    /\ [][(running /\ pc \in {"read", "errsleep"} /\ ~connected'
             /\ pc' \notin {"read", "errsleep"}) => pc' = "delay"]_vars
    /\ [][(pc = "delay" /\ pc' # pc) => (pc' = "open" /\ conns' = conns)]_vars
    /\ [][(pc = "open" /\ pc' # pc) =>
            IF input = "accept"
            THEN conns' = conns + 1 /\ connected' /\ pc' = "init" /\ hs' = 0
                    /\ out' = <<>>
            ELSE conns' = conns /\ ~connected' /\ pc' = "read"]_vars
    /\ [][(pc = "init" /\ pc' # pc) =>
            /\ pc' = "read"
            /\ hs = 8
            /\ connected =>
                  InOrder(out, [i \in 1..8 |-> WireRequest(i)])]_vars
    /\ (pc = "read" /\ ~connected /\ running) ~> (pc = "delay" \/ ~running)
    /\ (pc = "delay" /\ running /\ input = "accept") ~> (pc = "init" \/ ~running)
    /\ (pc = "init" /\ running) ~> (pc = "read" \/ ~running)

\* after a reconnect the loop reads from its second connection, to which
\* the eight requests were written
C21_Witness ==
    /\ pc = "read"
    /\ running
    /\ connected
    /\ input = "accept"
    /\ conns = 2
    /\ link = "up"
    /\ out = FullHandshake

(***************************************************************************)
(* Numeric fields (SpecS): one connected session whose node sends raw-data,*)
(* trace, ack and message frames with the bytes of their numeric fields    *)
(* taken from the ends and the middle of their ranges.                     *)
(***************************************************************************)
MaxSFrames == 1

\* bytes of a signed or hop field
SBytes == {0, 1, 127, 128, 200, 255}

\* the 4 bytes of a 32-bit field
Bytes4 ==
    {<<255, 255, 255, 255>>, <<0, 0, 0, 128>>, <<255, 255, 255, 127>>,
     <<1, 0, 0, 0>>, <<0, 1, 2, 3>>}

HopBytes == {0, 1, 254, 255}

\* 0x84: SNR at 1, RSSI at 2, reserved at 3, payload from 4
RawFrames == {<<132, s, r, 0, 7>> : s \in SBytes, r \in SBytes}

\* 0x89 with an empty path: tag at 4..7, auth code at 8..11, one SNR byte
TagFrames == {<<137, 0, 0, 0>> \o t \o a \o <<50>> : t \in Bytes4, a \in Bytes4}

\* 0x82: ack code at 1..4, round-trip time at 5..8
AckFrames == {<<130, 1, 2, 3, 4>> \o r : r \in Bytes4}

\* 0x08: channel at 1, hops at 2, timestamp at 4..7, the text 'Hi'
Msg08Frames ==
    {<<8, 9, h, 9>> \o ts \o <<72, 105>> : h \in HopBytes, ts \in Bytes4}

\* 0x11: channel at 4, hops at 5, timestamp at 6..9, the text 'Hi'
Msg11Frames ==
    {<<17, 9, 9, 9, 9, h>> \o ts \o <<9, 72, 105>> : h \in HopBytes, ts \in Bytes4}

\* 0x10: sender key at 4..9, hops at 10, timestamp at 12..15, the text 'Hi'
Msg10Frames ==
    {<<16, 9, 9, 9, 9, 9, 9, 9, 9, 9, h, 9>> \o ts \o <<72, 105>> :
        h \in HopBytes, ts \in Bytes4}

\* 0x07: sender key at 1..6, hops at 7, the text 'Hi' from 13
Msg07Frames == {<<7, 9, 9, 9, 9, 9, 9, h, 9, 9, 9, 9, 9, 72, 105>> : h \in HopBytes}

SFrames ==
    RawFrames \cup TagFrames \cup AckFrames \cup Msg08Frames \cup Msg11Frames
        \cup Msg10Frames \cup Msg07Frames

InitS ==
    /\ pc = "read"
    /\ wire = <<>>
    /\ input = <<>>
    /\ InitSession
    /\ InitDecoder

\* the node sends a frame, when the one before it has been read
S_Send ==
    /\ pc = "read"
    /\ wire = <<>>
    /\ Len(input) < MaxSFrames
    /\ \E f \in SFrames :
         /\ wire' = Append(wire, InFrame(f))
         /\ input' = Append(input, f)
    /\ UNCHANGED <<buffer, connVars, pc, cur, tasks, decoderVars, events, rx,
                   delivered, dropped>>

NextS == S_Send \/ Loop_Read \/ PB_Slice \/ PB_Callback \/ PB_Return

SpecS == InitS /\ [][NextS]_vars

\* v is the two's complement reading of the byte b
TwosComplement8(v, b) == IF b < 128 THEN v = b ELSE v = b - 256

\* v is the signed 32-bit little-endian value of the 4 bytes b: its low half
\* is the first two bytes, its high half the two's complement reading of the
\* last two
SignedLE32(v, b) ==
    /\ v % 65536 = b[1] + 256 * b[2]
    /\ LET hi == b[3] + 256 * b[4]
       IN  (v - (v % 65536)) \div 65536 = IF hi < 32768 THEN hi ELSE hi - 65536

\* v, in 16-bit halves, is the unsigned 32-bit little-endian value of b
UnsignedLE32(v, b) ==
    /\ v.lo = b[1] + 256 * b[2]
    /\ v.hi = b[3] + 256 * b[4]
    /\ v.hi >= 0

\* C31: the SNR and RSSI of a raw-data frame are the two's complement reading
\* of their bytes (the SNR over 4); the tag and auth code of a trace frame are
\* the signed 32-bit little-endian value of their 4 bytes, -1 for
\* ff ff ff ff; the timestamp of a message and the round-trip time of an ack
\* are the unsigned 32-bit little-endian value of theirs.
C31_SignedFields ==
    \A i \in DOMAIN events :
        LET f == events[i].ev.raw_frame
            data == events[i].ev.data
        IN  /\ f[1] = 132 =>
                /\ data.snr_db.den = 4
                /\ TwosComplement8(data.snr_db.num, f[2])
                /\ TwosComplement8(data.rssi_dbm, f[3])
            /\ f[1] = 137 =>
                /\ SignedLE32(data.tag, SubSeq(f, 5, 8))
                /\ SignedLE32(data.auth_code, SubSeq(f, 9, 12))
                /\ SubSeq(f, 5, 8) = <<255, 255, 255, 255>> => data.tag = -1
                /\ SubSeq(f, 9, 12) = <<255, 255, 255, 255>> => data.auth_code = -1
            /\ f[1] = 130 => UnsignedLE32(data.rtt_ms, SubSeq(f, 6, 9))
            /\ f[1] = 8 => UnsignedLE32(data.timestamp, SubSeq(f, 5, 8))
            /\ f[1] = 17 => UnsignedLE32(data.timestamp, SubSeq(f, 7, 10))
            /\ f[1] = 16 => UnsignedLE32(data.timestamp, SubSeq(f, 13, 16))

\* a raw-data frame with the bytes c8 and ff: SNR -56/4, RSSI -1
C31_Witness ==
    /\ pc = "read"
    /\ Len(events) = 1
    /\ events[1].ev.raw_frame = <<132, 200, 255, 0, 7>>
    /\ events[1].ev.data.snr_db = [num |-> -56, den |-> 4]
    /\ events[1].ev.data.rssi_dbm = -1

\* the offset of the hop byte of a message frame, by its opcode
HopOffset(code) ==
    CASE code = 8 -> 2
      [] code = 7 -> 7
      [] code = 16 -> 10
      [] code = 17 -> 5

\* C32: the hop count reported for a message of any of the four kinds (0x08,
\* 0x07, 0x10, 0x11) is 0 when the hop byte is 0xFF and the value of the hop
\* byte otherwise; the hop byte is at offset 2, 7, 10 and 5.
C32_HopCount ==
    \A i \in DOMAIN events :
        LET f == events[i].ev.raw_frame
        IN  f[1] \in {8, 7, 16, 17} =>
               LET b == f[HopOffset(f[1]) + 1]
               IN  events[i].ev.data.hops = IF b = 255 THEN 0 ELSE b

\* a 0x10 message with the hop byte ff reported with 0 hops
C32_Witness ==
    /\ pc = "read"
    /\ Len(events) = 1
    /\ events[1].ev.raw_frame[1] = 16
    /\ events[1].ev.raw_frame[11] = 255
    /\ events[1].ev.data.hops = 0

(***************************************************************************)
(* The decoder across a reconnect (SpecV): a connected session with        *)
(* auto-reconnect and the one decoder main.py gives it; the node sends a   *)
(* contact, named 'AB' on the first connection and 'CD' on the later ones, *)
(* the end of the contact list and a direct message of that contact,       *)
(* closes the connection and accepts or refuses a new one.                 *)
(***************************************************************************)
MaxVSegments == 4

VFrames(conn) ==
    {KFrame(KEY_A, 1, IF conn = 1 THEN NAME_AB ELSE NAME_CD, 132),
     END_CONTACTS, MsgB(KEY_A, TEXT_PLAIN)}

InitV ==
    /\ pc = "read"
    /\ wire = <<>>
    /\ input = <<>>
    /\ InitSession
    /\ InitDecoder

\* the node sends a frame on the connection that is open, when the one
\* before it has been read
V_Send ==
    /\ pc = "read"
    /\ link = "up"
    /\ wire = <<>>
    /\ sent < MaxVSegments
    /\ \E f \in VFrames(conns) : wire' = Append(wire, InFrame(f))
    /\ sent' = sent + 1
    /\ UNCHANGED <<buffer, connected, running, writer, link, out, hs, conns,
                   syncs, stopped, auto_reconnect, pc, cur, tasks,
                   decoderVars, events, rx, delivered, dropped, input>>

NextV ==
    \/ V_Send \/ NodeClose
    \/ Loop_Read \/ Loop_ReadEOF \/ Loop_Continue
    \/ Loop_Delay \/ Loop_Open \/ Init_Send \/ Loop_Connected
    \/ PB_Slice \/ PB_Callback \/ PB_Return

SpecV == InitV /\ [][NextV]_vars

\* the CONTACT_SUMMARY events handed to the sink so far
Summaries == {i \in DOMAIN events : events[i].ev.type = "contact_summary"}

\* the decoder is LIVE and the loop hands it a frame of opcode code
LiveStep(code) == pc = "cb" /\ ~initial_contact_loading /\ cur[1][1] = code

\* C33: the directory, the LIVE flag, the pending list and the counters are
\* as they were when a connection is opened again, and the flag never goes
\* back; a LIVE decoder resolves a direct message of a key it has learned to
\* the name stored, gives one CONTACT event for a contact frame and stores its
\* name in place of the one it had, and gives no event for an end of the
\* contact list: there is never a second CONTACT_SUMMARY.
C33_DecoderSurvives ==
    /\ [][conns' # conns =>
            /\ contacts' = contacts
            /\ initial_contact_loading' = initial_contact_loading
            /\ initial_contacts' = initial_contacts
            /\ stats' = stats
            /\ events' = events]_vars
    /\ [][~initial_contact_loading => ~initial_contact_loading']_vars
    /\ [][LiveStep(3) =>
            /\ Len(events') = Len(events) + 1
            /\ events'[Len(events')].ev.type = "contact"
            /\ events'[Len(events')].ev.raw_frame = cur[1]
            /\ NameField(cur[1], contacts'[Hex(KEY_A)])]_vars
    /\ [][LiveStep(4) => (events' = events /\ contacts' = contacts)]_vars
    /\ [][(LiveStep(7) /\ Hex(KEY_A) \in DOMAIN contacts) =>
            /\ Len(events') = Len(events) + 1
            /\ events'[Len(events')].ev.data.sender = contacts[Hex(KEY_A)]]_vars
    /\ [][Cardinality(Summaries') <= 1]_vars

\* the contact list replayed on the second connection: the name 'AB' learned
\* on the first is replaced by 'CD' with one CONTACT event, and the second
\* end of the list gave nothing
C33_Witness ==
    /\ pc = "read"
    /\ conns = 2
    /\ Len(delivered) = 4
    /\ delivered[1] = KFrame(KEY_A, 1, NAME_AB, 132)
    /\ delivered[2] = END_CONTACTS
    /\ delivered[3] = KFrame(KEY_A, 1, NAME_CD, 132)
    /\ delivered[4] = END_CONTACTS
    /\ contacts[Hex(KEY_A)] = NAME_CD
    /\ Len(events) = 2
    /\ events[1].ev.type = "contact_summary"
    /\ events[1].ev.data.contacts[1].name = NAME_AB
    /\ events[2].ev.type = "contact"
    /\ stats.frames = 4

(***************************************************************************)
(* After disconnect() (Spec)                                               *)
(***************************************************************************)

\* C34: once disconnect() has run the session stays down: connected is not
\* True again, no connection is opened and no request is written, whatever
\* the read loop was waiting for when disconnect() ran, the reconnect delay
\* included.
C34_StaysDown ==
    [][stopped => (~connected' /\ conns' = conns /\ out' = out)]_vars

\* disconnect() ran during the reconnect delay, and the loop has opened its
\* second connection and written the first request of initialize to it
C34_Reopened ==
    /\ stopped
    /\ ~running
    /\ connected
    /\ conns = 2
    /\ pc = "init"
    /\ out = WireRequest(1)

\* C35: connect() returns True only when the session is marked connected as
\* it returns: start() goes on to its tasks, and the read loop to its read,
\* after a connect() whose initialize left the session connected.
C35_ConnectReports ==
    [][(pc \in {"init0", "init"} /\ pc' # pc) => connected]_vars

\* connect() has returned True to start(), which started the read loop, with
\* the session marked disconnected by the second request of initialize,
\* which failed: only the first was written
C35_TrueWhenDown ==
    /\ running
    /\ ~stopped
    /\ ~connected
    /\ conns = 1
    /\ pc = "delay"
    /\ out = WireRequest(1)
    /\ link = "reset"

(***************************************************************************)
(* The pending list (SpecD)                                                *)
(***************************************************************************)

\* C36: whenever the decoder is LIVE its pending list is empty: the list
\* grows, by one entry, only in a step that starts and ends BOOTSTRAPPING,
\* and it is emptied by the step that makes the decoder LIVE, after which it
\* does not change.
C36_PendingEmptyWhenLive ==
    /\ [](~initial_contact_loading => initial_contacts = <<>>)
    /\ [][initial_contacts' # initial_contacts =>
            /\ initial_contact_loading
            /\ IF initial_contact_loading'
               THEN /\ Len(initial_contacts') = Len(initial_contacts) + 1
                    /\ SubSeq(initial_contacts', 1, Len(initial_contacts))
                          = initial_contacts
               ELSE initial_contacts' = <<>>]_vars

\* a contact summarised, and a contact frame decoded after that: the list is
\* empty
C36_Witness ==
    /\ pc = "read"
    /\ delivered = <<CONTACT_A, END_CONTACTS, CONTACT_B>>
    /\ ~initial_contact_loading
    /\ initial_contacts = <<>>
    /\ Len(events) = 2
    /\ events[1].ev.data.total = 1
    /\ events[2].ev.type = "contact"

(***************************************************************************)
(* Frames of every kind and of no bytes (SpecZ): a connected session whose *)
(* node sends frames of length 0, frames that are not decoded (message     *)
(* waiting, unknown, too short), and one frame of each kind that is; the   *)
(* loop reads them one at a time or together.                              *)
(***************************************************************************)
MaxZFrames == 2

ZFrames ==
    {<<>>, MSG_WAITING_FRAME, <<5, 1, 2, 3>>, Short(MsgA(3, TEXT_ALICE)),
     MsgA(3, TEXT_PLAIN), MsgB(KEY_A, TEXT_PLAIN), MsgC(KEY_A, TEXT_PLAIN),
     MsgD(12, TEXT_ALICE), MESH_FRAME, Advert(KEY_A), CONTACT_A, END_CONTACTS,
     ACK_FRAME, RAW_FRAME, TRACE_EXAMPLE}

InitZ ==
    /\ pc = "read"
    /\ wire = <<>>
    /\ input = <<>>
    /\ InitSession
    /\ InitDecoder

\* the node sends a frame
Z_Send ==
    /\ pc = "read"
    /\ Len(input) < MaxZFrames
    /\ \E f \in ZFrames :
         /\ wire' = Append(wire, InFrame(f))
         /\ input' = Append(input, f)
    /\ UNCHANGED <<buffer, connVars, pc, cur, tasks, decoderVars, events, rx,
                   delivered, dropped>>

NextZ ==
    \/ Z_Send \/ Loop_Read \/ PB_Slice \/ PB_Callback \/ PB_Return
    \/ SendTask

SpecZ == InitZ /\ [][NextZ]_vars

\* the frames of at least one byte handed to decode_frame so far
NonEmpty == {i \in DOMAIN delivered : delivered[i] # <<>>}

\* C37: the counters of messages, mesh packets and adverts add up to at most
\* the frames counter; the frames counter is the number of frames of at least
\* one byte handed to decode_frame, those not decoded included; the sink was
\* handed at most that many events.
C37_CounterBounds ==
    /\ stats.messages + stats.mesh_packets + stats.adverts <= stats.frames
    /\ stats.frames = Cardinality(NonEmpty)
    /\ Len(events) <= stats.frames

\* a frame of no bytes and a frame that is too short: one frame counted, no
\* message, no event
C37_Witness ==
    /\ pc = "read"
    /\ delivered = <<<<>>, Short(MsgA(3, TEXT_ALICE))>>
    /\ stats.frames = 1
    /\ stats.messages = 0
    /\ events = <<>>

\* the frame at the head of the buffer has the declared length 0
ZeroHead == HeaderReady(buffer) /\ SubSeq(buffer, 1, 3) = <<62, 0, 0>>

\* C38: a frame of declared length 0 takes its 3 bytes from the buffer and
\* nothing else changes: no request is scheduled or written, the sink gets no
\* event, and the counters, the directory, the flag and the pending list are
\* as before; the frames after it are handed to the decoder as they were
\* sent.
C38_EmptyFrame ==
    /\ [][(pc = "pb" /\ ZeroHead) =>
            /\ buffer' = SubSeq(buffer, 4, Len(buffer))
            /\ pc' = "cb"
            /\ cur' = <<<<>>>>
            /\ tasks' = tasks
            /\ UNCHANGED <<out, events, stats, contacts,
                           initial_contact_loading, initial_contacts>>]_vars
    /\ [][(pc = "cb" /\ cur[1] = <<>>) =>
            /\ pc' = "pb"
            /\ UNCHANGED <<buffer, tasks, out, events, stats, contacts,
                           initial_contact_loading, initial_contacts>>]_vars
    /\ [](/\ Len(delivered) <= Len(input)
          /\ delivered = SubSeq(input, 1, Len(delivered)))

\* a frame of no bytes and a contact frame read together: the contact was
\* decoded, one frame was counted
C38_Witness ==
    /\ pc = "read"
    /\ Len(rx) = 3 + 3 + Len(CONTACT_A)
    /\ buffer = <<>>
    /\ delivered = <<<<>>, CONTACT_A>>
    /\ stats.frames = 1
    /\ Len(initial_contacts) = 1
    /\ tasks = 0

(***************************************************************************)
(* The batch sender of the Discord bridge (SpecQ): one queue of the        *)
(* bridge and its channel.  events is the queue, to which handle_event     *)
(* appends the embeds, numbered in the order in which they are made; pc is *)
(* where batch_sender is suspended (its sleep, a channel.send of           *)
(* _send_batch, the sleep after a rate limit); input holds the batch of    *)
(* _send_batch, the index of the embed being sent, the embeds Discord has  *)
(* accepted, in order, and the numbers of embeds made and of sends failed. *)
(***************************************************************************)
MaxEmbeds == 3
MaxSendErrors == 2
max_batch_size == 2

InitQ ==
    /\ pc = "sleep"
    /\ wire = <<>>
    /\ input = [batch |-> <<>>, i |-> 0, accepted |-> <<>>, made |-> 0,
                errors |-> 0]
    /\ InitSession
    /\ InitDecoder

\* handle_event: the embed of an event is appended to the queue; it runs
\* between two awaits of batch_sender
Q_Enqueue ==
    /\ input.made < MaxEmbeds
    /\ events' = handle_event(events, input.made + 1)
    /\ input' = [input EXCEPT !.made = @ + 1]
    /\ UNCHANGED <<buffer, connVars, pc, cur, tasks, wire, contacts,
                   initial_contact_loading, initial_contacts, stats, rx,
                   delivered, dropped>>

\* while queue and len(batch) < self.max_batch_size: batch.append(queue.popleft())
Collected(queue) == SubSeq(queue, 1, Min(Len(queue), max_batch_size))

\* batch_sender: the sleep ends with the queue not empty; _send_batch takes
\* its batch from the left of the queue and starts its first send
Q_Collect ==
    /\ pc = "sleep"
    /\ events # <<>>
    /\ input' = [input EXCEPT !.batch = Collected(events), !.i = 1]
    /\ events' = SubSeq(events, Len(Collected(events)) + 1, Len(events))
    /\ pc' = "send"
    /\ UNCHANGED <<buffer, connVars, cur, tasks, wire, contacts,
                   initial_contact_loading, initial_contacts, stats, rx,
                   delivered, dropped>>

\* await channel.send(embed=embed, ...) returns: the next embed of the batch,
\* or the end of _send_batch
Q_SendOk ==
    /\ pc = "send"
    /\ input' = [input EXCEPT !.accepted = Append(@, input.batch[input.i]),
                              !.i = IF input.i = Len(input.batch) THEN 0
                                    ELSE @ + 1,
                              !.batch = IF input.i = Len(input.batch)
                                        THEN <<>> ELSE @]
    /\ pc' = IF input.i = Len(input.batch) THEN "sleep" ELSE "send"
    /\ UNCHANGED <<buffer, connVars, cur, tasks, wire, decoderVars, events,
                   rx, delivered, dropped>>

\* for embed in batch: queue.appendleft(embed)
RECURSIVE Requeue(_, _)
Requeue(queue, batch) ==
    IF batch = <<>> THEN queue
    ELSE Requeue(<<batch[1]>> \o queue, Tail(batch))

\* channel.send raises HTTPException with status 429: the batch is put back
\* on the queue, then sleep(5)
Q_Send429 ==
    /\ pc = "send"
    /\ input.errors < MaxSendErrors
    /\ events' = Requeue(events, input.batch)
    /\ input' = [input EXCEPT !.batch = <<>>, !.i = 0, !.errors = @ + 1]
    /\ pc' = "backoff"
    /\ UNCHANGED <<buffer, connVars, cur, tasks, wire, contacts,
                   initial_contact_loading, initial_contacts, stats, rx,
                   delivered, dropped>>

\* channel.send raises anything else: the error is logged and the batch
\* forgotten
Q_SendFail ==
    /\ pc = "send"
    /\ input.errors < MaxSendErrors
    /\ input' = [input EXCEPT !.batch = <<>>, !.i = 0, !.errors = @ + 1]
    /\ pc' = "sleep"
    /\ UNCHANGED <<buffer, connVars, cur, tasks, wire, decoderVars, events,
                   rx, delivered, dropped>>

\* the sleep(5) after a rate limit ends: _send_batch returns
Q_Backoff ==
    /\ pc = "backoff"
    /\ pc' = "sleep"
    /\ UNCHANGED <<buffer, connVars, cur, tasks, wire, decoderVars, events,
                   rx, delivered, dropped, input>>

NextQ ==
    \/ Q_Enqueue \/ Q_Collect \/ Q_SendOk \/ Q_Send429 \/ Q_SendFail
    \/ Q_Backoff

SpecQ == InitQ /\ [][NextQ]_vars

\* s holds embeds in the order in which they were enqueued
InOrderOfEnqueue(s) == \A i, j \in DOMAIN s : i < j => s[i] <= s[j]

\* C39: the embeds of a queue are sent to the channel in the order in which
\* handle_event enqueued them, at most max_batch_size in one _send_batch, and
\* a batch put back on the queue after a rate limit is in that order again.
C39_SendOrder ==
    /\ InOrderOfEnqueue(input.accepted)
    /\ InOrderOfEnqueue(events)
    /\ Len(input.batch) <= max_batch_size

\* embed 2 was accepted before embed 1, each once: the first send of the
\* batch 1, 2 was rate limited and the batch put back as 2, 1
C39_Reversed ==
    /\ pc = "sleep"
    /\ input.accepted = <<2, 1>>
    /\ input.errors = 1
    /\ events = <<>>

\* C40: an embed is sent at most once: one that Discord has accepted is not
\* sent again, also when a later embed of its batch was rate limited and the
\* batch put back on the queue.
C40_AtMostOnce ==
    \A i, j \in DOMAIN input.accepted :
        i # j => input.accepted[i] # input.accepted[j]

\* embed 1 was accepted twice: the send of embed 2 of its batch was rate
\* limited
C40_SentTwice ==
    /\ input.accepted = <<1, 2, 1>>
    /\ input.errors = 1
    /\ input.made = 2

====
